---------------------------- MODULE Spec2Model ----------------------------
(***************************************************************************)
(* State-machine model of typed-message's locale controller                *)
(* (typed-message/src/useLocaleController.ts).                             *)
(*                                                                         *)
(* Strings are sequences of one-character strings, so that trim() is a     *)
(* real conversion.  A dictionary is <<locale, version>>: the loader may   *)
(* answer the same locale with different content on different calls.       *)
(***************************************************************************)
EXTENDS Integers, Sequences, FiniteSets, TLC

VARIABLES
    phase,        \* "new" (hook not yet run), "rendered", "mounted", "unmounted"
    opts,         \* the options object passed to useLocaleController
    env,          \* the host: is localStorage usable, does getItem throw
    storage,      \* window.localStorage[persistenceKey]; None is null
    cacheRef,     \* cacheRef.current : locale -> dictionary (None: absent)
    localeRef,    \* localeRef.current
    localeState,  \* React state: locale
    status,       \* React state: status
    dictionary,   \* React state: dictionary
    error,        \* React state: error (None is null)
    effectLocale, \* value of localeState the auto-load effect last ran for
    locked,       \* the mutex is held
    waiters,      \* FIFO of load operations awaiting mutexRef.current.lock()
    inflight,     \* load operations awaiting the loader's promise
    rejected,     \* failed operations whose catch block has not run yet
    loaderCalls,  \* history: number of loader invocations per locale
    loaded,       \* history: locales for which a loader invocation resolved
    calls,        \* history: number of setLocale / preload calls made
    last,         \* history: what the last step did
    pc,                    \* position of the build-time pipeline
    localeDir,             \* the locale directory: its entries and their content
    fallbackPriorityOrder, \* options.fallbackPriorityOrder
    localeFiles,           \* what getLocaleFiles returned
    outputFile,            \* what generateMessageFile wrote
    originalKeys,          \* message keys still to be given an identifier
    usedIdentifiers,       \* generateTypeScriptCode's usedIdentifiers set
    sanitizedKeys,         \* identifiers assigned in this pass, in key order
    previousPass,          \* identifiers assigned by the pass before
    providerMessages,      \* the dictionary given to TypedMessageProvider
    call,                  \* the call made on a message hook's function
    returned               \* what the call returned or threw

controllerVars ==
    <<phase, opts, env, storage, cacheRef, localeRef, localeState, status,
      dictionary, error, effectLocale, locked, waiters, inflight,
      rejected, loaderCalls, loaded, calls, last>>

pipelineVars ==
    <<pc, localeDir, fallbackPriorityOrder, localeFiles, outputFile,
      originalKeys, usedIdentifiers, sanitizedKeys, previousPass>>

providerVars == <<providerMessages, call, returned>>

vars == <<controllerVars, pipelineVars, providerVars>>

-----------------------------------------------------------------------------
(* Bounds *)

MaxCalls == 2

MaxPreload == 2


-----------------------------------------------------------------------------
(* Values *)

\* undefined / null (a value no string of characters equals)
None == <<"None">>

SP == " "

EN == <<"e", "n">>

JA == <<"j", "a">>

FALLBACK == <<"f", "a", "l", "l", "b", "a", "c", "k">>

FR == <<"f", "r">>

DE == <<"d", "e">>

\* the locales the controller is asked for
Locales == {EN, JA}

EmptyDictionary == <<>>

\* two possible contents per locale
Dictionaries == Locales \X {1, 2}

LoadError(l) == <<"load failed", l>>

StorageError == <<"QuotaExceededError">>

\* String.prototype.trim
RECURSIVE TrimStart(_)
TrimStart(s) ==
    IF s # <<>> /\ Head(s) = SP THEN TrimStart(Tail(s)) ELSE s

RECURSIVE TrimEnd(_)
TrimEnd(s) ==
    IF s # <<>> /\ s[Len(s)] = SP THEN TrimEnd(SubSeq(s, 1, Len(s) - 1)) ELSE s

Trim(s) == TrimEnd(TrimStart(s))

\* JavaScript truthiness of an optional string: undefined, null and '' are falsy
Truthy(s) == s # None /\ s # <<>>


-----------------------------------------------------------------------------
(* Persistence (window.localStorage) *)

\* readStoredLocale: undefined unless storage is usable and a key is set;
\* a throwing getItem is caught and reads as undefined
readStoredLocale(o, e, store) ==
    IF ~e.canUseStorage \/ ~o.storageKey THEN None
    ELSE IF e.getItemThrows THEN None
    ELSE store

persistLocale_anyKey(o, e, store, value, setItemThrows) ==
    IF ~e.canUseStorage
        THEN [storage |-> store, thrown |-> None]
    ELSE IF setItemThrows
        THEN [storage |-> store, thrown |-> None]
    ELSE [storage |-> value, thrown |-> None]

persistLocale_uncaught(o, e, store, value, setItemThrows) ==
    IF ~e.canUseStorage \/ ~o.storageKey
        THEN [storage |-> store, thrown |-> None]
    ELSE IF setItemThrows
        THEN [storage |-> store, thrown |-> StorageError]
    ELSE [storage |-> value, thrown |-> None]

\* persistLocale: the new storage content and the exception that escapes
\* (never one: a throwing setItem is caught and ignored)
persistLocale(o, e, store, value, setItemThrows) ==
    IF ~e.canUseStorage \/ ~o.storageKey
        THEN [storage |-> store, thrown |-> None]
    ELSE IF setItemThrows
        THEN [storage |-> store, thrown |-> None]
    ELSE [storage |-> value, thrown |-> None]

resolveInitialLocale_unordered(o, e, store) ==
    LET stored == readStoredLocale(o, e, store) IN
    IF Truthy(o.initialLocale) /\ Truthy(Trim(o.initialLocale))
        THEN Trim(o.initialLocale)
    ELSE IF Truthy(stored) /\ Truthy(Trim(stored))
        THEN Trim(stored)
    ELSE IF o.locales # None /\ Len(o.locales) > 0
            /\ Truthy(o.locales[1]) /\ Truthy(Trim(o.locales[1]))
        THEN Trim(o.locales[1])
    ELSE IF Truthy(o.fallbackLocale) /\ Truthy(Trim(o.fallbackLocale))
        THEN Trim(o.fallbackLocale)
    ELSE FALLBACK

resolveInitialLocale(o, e, store) ==
    LET stored == readStoredLocale(o, e, store) IN
    IF Truthy(stored) /\ Truthy(Trim(stored))
        THEN Trim(stored)
    ELSE IF Truthy(o.initialLocale) /\ Truthy(Trim(o.initialLocale))
        THEN Trim(o.initialLocale)
    ELSE IF o.locales # None /\ Len(o.locales) > 0
            /\ Truthy(o.locales[1]) /\ Truthy(Trim(o.locales[1]))
        THEN Trim(o.locales[1])
    ELSE IF Truthy(o.fallbackLocale) /\ Truthy(Trim(o.fallbackLocale))
        THEN Trim(o.fallbackLocale)
    ELSE FALLBACK

-----------------------------------------------------------------------------
(* The hook's state and the helpers that update it *)

isMountedRef == phase # "unmounted"

\* A load request: enqueueLoad(locale, apply) on behalf of setLocale,
\* preload or the auto-load effect
Task(k, l, a) == [kind |-> k, locale |-> l, apply |-> a]

State ==
    [localeRef |-> localeRef, localeState |-> localeState, status |-> status,
     dictionary |-> dictionary, error |-> error, storage |-> storage,
     thrown |-> None]

Commit(r) ==
    /\ localeRef' = r.localeRef
    /\ localeState' = r.localeState
    /\ status' = r.status
    /\ dictionary' = r.dictionary
    /\ error' = r.error
    /\ storage' = r.storage

applyLoadedLocale_localeOnly(st, mounted, nextLocale, nextDictionary, setItemThrows) ==
    IF ~mounted THEN st
    ELSE LET p == persistLocale(opts, env, st.storage, nextLocale, setItemThrows)
         IN  [localeRef |-> nextLocale, localeState |-> nextLocale,
              status |-> "ready", dictionary |-> st.dictionary,
              error |-> None, storage |-> p.storage, thrown |-> p.thrown]

applyLoadedLocale_unguarded(st, mounted, nextLocale, nextDictionary, setItemThrows) ==
    LET p == persistLocale(opts, env, st.storage, nextLocale, setItemThrows)
    IN  [localeRef |-> nextLocale, localeState |-> nextLocale,
         status |-> "ready", dictionary |-> nextDictionary,
         error |-> None, storage |-> p.storage, thrown |-> p.thrown]

\* applyLoadedLocale: nothing when unmounted; otherwise the four state
\* setters, the ref and the persisted locale
applyLoadedLocale(st, mounted, nextLocale, nextDictionary, setItemThrows) ==
    IF ~mounted THEN st
    ELSE LET p == persistLocale(opts, env, st.storage, nextLocale, setItemThrows)
         IN  [localeRef |-> nextLocale, localeState |-> nextLocale,
              status |-> "ready", dictionary |-> nextDictionary,
              error |-> None, storage |-> p.storage, thrown |-> p.thrown]

\* the transition into 'loading' before the loader is called
beginLoading(st, mounted, apply) ==
    IF apply /\ mounted
        THEN [st EXCEPT !.status = "loading", !.error = None]
        ELSE st

catchLoadError_reset(st, mounted, apply, loadError) ==
    IF apply /\ mounted
        THEN [st EXCEPT !.status = "error", !.error = loadError,
                        !.dictionary = EmptyDictionary]
        ELSE st

\* the catch block of enqueueLoad
catchLoadError(st, mounted, apply, loadError) ==
    IF apply /\ mounted
        THEN [st EXCEPT !.status = "error", !.error = loadError]
        ELSE st

cacheGet_miss(cache, l) == None

\* cacheRef.current.get(normalized)
cacheGet(cache, l) == cache[l]

cacheSet_dropped(cache, l, d) == cache

cacheSet_replace(cache, l, d) == [x \in DOMAIN cache |-> IF x = l THEN d ELSE None]

\* cacheRef.current.set(normalized, loaded)
cacheSet(cache, l, d) == [cache EXCEPT ![l] = d]

LockGranted_unlocked(isLocked, queue) == queue # <<>>

\* mutexRef.current.lock() is granted to the oldest waiter once the mutex is free
LockGranted(isLocked, queue) == ~isLocked /\ queue # <<>>

RemoveAt(q, i) == SubSeq(q, 1, i - 1) \o SubSeq(q, i + 1, Len(q))

\* Array.from(new Set(names.map(trim).filter(nonblank)))
RECURSIVE uniqueLocales(_)
uniqueLocales(names) ==
    IF names = <<>> THEN <<>>
    ELSE LET rest == uniqueLocales(SubSeq(names, 1, Len(names) - 1))
             n == Trim(names[Len(names)])
         IN  IF n = <<>> \/ \E i \in 1..Len(rest) : rest[i] = n
                 THEN rest
                 ELSE Append(rest, n)

preloadTasks_applying(names) ==
    LET u == uniqueLocales(names)
    IN  [i \in 1..Len(u) |-> Task("preload", u[i], TRUE)]

preloadTasks(names) ==
    LET u == uniqueLocales(names)
    IN  [i \in 1..Len(u) |-> Task("preload", u[i], FALSE)]

\* for steps that run for no single request
NoTask == Task("none", <<>>, FALSE)

\* what a step did: the operation, the request it ran for, how the request's
\* promise settled in this step ("pending": not yet), the value the loader or the
\* request settled with, and
\* whether localStorage.setItem threw in this step
Step(op, t, settled, value, threw) ==
    [op |-> op, task |-> t, settled |-> settled, value |-> value,
     setItemThrew |-> threw]

\* setItem is reached only from applyLoadedLocale on a mounted hook with
\* usable storage and a storage key
SetItemOutcomes(apply) ==
    IF apply /\ isMountedRef /\ env.canUseStorage /\ opts.storageKey
        THEN BOOLEAN
        ELSE {FALSE}

-----------------------------------------------------------------------------
(* Inputs *)

\* arguments of setLocale and entries of preload lists
RawNames == {<<>>, <<SP>>, EN, <<SP>> \o JA \o <<SP>>}

PreloadNames == {EN, <<SP>> \o JA, <<SP>>}

PreloadLists == UNION {[1..n -> PreloadNames] : n \in 0..MaxPreload}

Options(key, initial, list, fallback) ==
    [storageKey |-> key, initialLocale |-> initial, locales |-> list,
     fallbackLocale |-> fallback]

Env(usable, throws) == [canUseStorage |-> usable, getItemThrows |-> throws]

\* the configurations the controller is run under: without a storage key
\* and with an eager preload list; with a storage key and a stored locale
\* that can or cannot be read; with a storage key but no usable storage
ControllerConfigs ==
    { [opts |-> Options(FALSE, <<SP>> \o EN, <<JA>>, None),
       env |-> Env(TRUE, FALSE), storage |-> None],
      [opts |-> Options(TRUE, EN, None, None),
       env |-> Env(TRUE, FALSE), storage |-> <<SP>> \o JA],
      [opts |-> Options(TRUE, EN, None, None),
       env |-> Env(TRUE, TRUE), storage |-> <<SP>> \o JA],
      [opts |-> Options(TRUE, EN, None, None),
       env |-> Env(FALSE, FALSE), storage |-> None] }

-----------------------------------------------------------------------------
(* The controller *)

NoCall ==
    [op |-> "none", key |-> <<>>, fallback |-> <<>>, hasParams |-> FALSE,
     params |-> <<>>]

NothingReturned == [kind |-> "none", text |-> <<>>]

\* no provider is rendered
ProviderIdle ==
    /\ providerMessages = <<>>
    /\ call = NoCall
    /\ returned = NothingReturned

\* the build-time pipeline is not running
PipelineIdle ==
    /\ pc = "idle"
    /\ localeDir = [exists |-> FALSE, entries |-> <<>>]
    /\ fallbackPriorityOrder = <<>>
    /\ localeFiles = <<>>
    /\ outputFile = [written |-> FALSE]
    /\ originalKeys = <<>>
    /\ usedIdentifiers = {}
    /\ sanitizedKeys = <<>>
    /\ previousPass = <<>>

Init ==
    /\ phase = "rendered"
    /\ \E c \in ControllerConfigs :
          opts = c.opts /\ env = c.env /\ storage = c.storage
    /\ cacheRef = [l \in Locales |-> None]
    /\ localeRef = <<>>
    /\ localeState = resolveInitialLocale(opts, env, storage)
    /\ status = "idle"
    /\ dictionary = EmptyDictionary
    /\ error = None
    /\ effectLocale = None
    /\ locked = FALSE
    /\ waiters = <<>>
    /\ inflight = <<>>
    /\ rejected = <<>>
    /\ loaderCalls = [l \in Locales |-> 0]
    /\ loaded = {}
    /\ calls = 0
    /\ last = Step("init", NoTask, "pending", None, FALSE)
    /\ PipelineIdle
    /\ ProviderIdle

\* the effects of the first commit: mount flag, locale ref, auto-load, preload
Mount ==
    /\ phase = "rendered"
    /\ phase' = "mounted"
    /\ localeRef' = localeState
    /\ effectLocale' = localeState
    /\ waiters' = <<Task("auto", Trim(localeState), TRUE)>>
                    \o (IF opts.locales = None \/ opts.locales = <<>>
                            THEN <<>>
                            ELSE preloadTasks(opts.locales))
    /\ last' = Step("mount", NoTask, "pending", None, FALSE)
    /\ UNCHANGED <<opts, env, storage, cacheRef, localeState, status,
                   dictionary, error, locked, inflight, rejected,
                   loaderCalls, loaded, calls>>
    /\ UNCHANGED <<pipelineVars, providerVars>>

\* the cleanup of the mount effect
Unmount ==
    /\ phase = "mounted"
    /\ phase' = "unmounted"
    /\ last' = Step("unmount", NoTask, "pending", None, FALSE)
    /\ UNCHANGED <<opts, env, storage, cacheRef, localeRef, localeState,
                   status, dictionary, error, effectLocale, locked, waiters,
                   inflight, rejected, loaderCalls, loaded, calls>>
    /\ UNCHANGED <<pipelineVars, providerVars>>

\* the auto-load effect re-runs when localeState has changed
AutoLoadEffect ==
    /\ phase = "mounted"
    /\ effectLocale # localeState
    /\ effectLocale' = localeState
    /\ localeRef' = localeState
    /\ waiters' = Append(waiters, Task("auto", Trim(localeState), TRUE))
    /\ last' = Step("effect", NoTask, "pending", None, FALSE)
    /\ UNCHANGED <<phase, opts, env, storage, cacheRef, localeState, status,
                   dictionary, error, locked, inflight, rejected,
                   loaderCalls, loaded, calls>>
    /\ UNCHANGED <<pipelineVars, providerVars>>

\* setLocale(requestedLocale), up to the point where it awaits the mutex
SetLocale(raw) ==
    LET normalized == Trim(raw)
        t == Task("setLocale", normalized, TRUE)
        cached == IF normalized \in Locales
                     THEN cacheGet(cacheRef, normalized) ELSE None
    IN
    /\ phase \in {"mounted", "unmounted"}
    /\ calls < MaxCalls
    /\ calls' = calls + 1
    /\ IF normalized = <<>>
         THEN /\ last' = Step("setLocale", t, "resolved", None, FALSE)
              /\ UNCHANGED <<storage, localeRef, localeState, status,
                             dictionary, error, waiters, rejected>>
       ELSE IF normalized = localeRef /\ cached # None
         THEN \E setItemThrows \in SetItemOutcomes(TRUE) :
              LET r == applyLoadedLocale(State, isMountedRef, normalized,
                                         cached, setItemThrows)
              IN  /\ Commit(r)
                  /\ last' = Step("setLocale", t,
                                  IF r.thrown = None THEN "resolved"
                                                     ELSE "rejected",
                                  r.thrown, setItemThrows)
                  /\ UNCHANGED <<waiters, rejected>>
       ELSE /\ waiters' = Append(waiters, t)
            /\ last' = Step("setLocale", t, "pending", None, FALSE)
            /\ UNCHANGED <<storage, localeRef, localeState, status,
                           dictionary, error, rejected>>
    /\ UNCHANGED <<phase, opts, env, cacheRef, effectLocale, locked,
                   inflight, loaderCalls, loaded>>
    /\ UNCHANGED <<pipelineVars, providerVars>>

\* preload(requestedLocales), up to the point where its loads await the mutex
Preload(names) ==
    /\ phase \in {"mounted", "unmounted"}
    /\ calls < MaxCalls
    /\ calls' = calls + 1
    /\ waiters' = waiters \o preloadTasks(names)
    /\ last' = Step("preload", NoTask,
                    IF preloadTasks(names) = <<>> THEN "resolved" ELSE "pending",
                    None, FALSE)
    /\ UNCHANGED <<phase, opts, env, storage, cacheRef, localeRef,
                   localeState, status, dictionary, error, effectLocale,
                   locked, inflight, rejected, loaderCalls, loaded>>
    /\ UNCHANGED <<pipelineVars, providerVars>>

\* runWithMutex grants the lock to the oldest waiter, whose operation runs up
\* to its first suspension: a cache hit finishes (and releases) at once, a
\* miss calls the loader and awaits it with the lock held
Acquire ==
    /\ LockGranted(locked, waiters)
    /\ LET t == Head(waiters)
           cached == cacheGet(cacheRef, t.locale)
       IN
       /\ waiters' = Tail(waiters)
       /\ IF cached # None
            THEN \E setItemThrows \in SetItemOutcomes(t.apply) :
                 LET r == IF t.apply
                             THEN applyLoadedLocale(State, isMountedRef,
                                      t.locale, cached, setItemThrows)
                             ELSE State
                 IN  /\ Commit(r)
                     /\ locked' = FALSE
                     /\ rejected' = IF r.thrown = None THEN rejected
                                    ELSE Append(rejected,
                                           [task |-> t, error |-> r.thrown])
                     /\ last' = Step("hit", t,
                                     IF r.thrown = None THEN "resolved"
                                                        ELSE "pending",
                                     None, setItemThrows)
                     /\ UNCHANGED <<inflight, loaderCalls>>
            ELSE /\ Commit(beginLoading(State, isMountedRef, t.apply))
                 /\ locked' = TRUE
                 /\ inflight' = Append(inflight, t)
                 /\ loaderCalls' = [loaderCalls EXCEPT ![t.locale] = @ + 1]
                 /\ last' = Step("load", t, "pending", None, FALSE)
                 /\ UNCHANGED rejected
    /\ UNCHANGED <<phase, opts, env, cacheRef, effectLocale, loaded, calls>>
    /\ UNCHANGED <<pipelineVars, providerVars>>

\* the loader's promise resolves with dictionary d: cache it, apply it when
\* asked to, release the mutex
LoaderResolve(i, d) ==
    /\ i \in 1..Len(inflight)
    /\ \E setItemThrows \in SetItemOutcomes(inflight[i].apply) :
       LET t == inflight[i]
           r == IF t.apply
                   THEN applyLoadedLocale(State, isMountedRef, t.locale, d,
                                          setItemThrows)
                   ELSE State
       IN
       /\ d[1] = t.locale
       /\ cacheRef' = cacheSet(cacheRef, t.locale, d)
       /\ loaded' = loaded \cup {t.locale}
       /\ Commit(r)
       /\ inflight' = RemoveAt(inflight, i)
       /\ locked' = FALSE
       /\ rejected' = IF r.thrown = None THEN rejected
                      ELSE Append(rejected, [task |-> t, error |-> r.thrown])
       /\ last' = Step("loaded", t,
                       IF r.thrown = None THEN "resolved" ELSE "pending",
                       d, setItemThrows)
    /\ UNCHANGED <<phase, opts, env, effectLocale, waiters, loaderCalls,
                   calls>>
    /\ UNCHANGED <<pipelineVars, providerVars>>

LoaderReject_lockHeld(i) ==
    /\ i \in 1..Len(inflight)
    /\ LET t == inflight[i]
       IN  /\ inflight' = RemoveAt(inflight, i)
           /\ rejected' = Append(rejected,
                                 [task |-> t, error |-> LoadError(t.locale)])
           /\ last' = Step("failed", t, "pending", None, FALSE)
    /\ UNCHANGED <<phase, opts, env, storage, cacheRef, localeRef,
                   localeState, status, dictionary, error, effectLocale,
                   locked, waiters, loaderCalls, loaded, calls>>
    /\ UNCHANGED <<pipelineVars, providerVars>>

\* the loader's promise rejects: the finally block releases the mutex and
\* the rejection travels on to the catch block of enqueueLoad
LoaderReject(i) ==
    /\ i \in 1..Len(inflight)
    /\ LET t == inflight[i]
       IN  /\ inflight' = RemoveAt(inflight, i)
           /\ locked' = FALSE
           /\ rejected' = Append(rejected,
                                 [task |-> t, error |-> LoadError(t.locale)])
           /\ last' = Step("failed", t, "pending", None, FALSE)
    /\ UNCHANGED <<phase, opts, env, storage, cacheRef, localeRef,
                   localeState, status, dictionary, error, effectLocale,
                   waiters, loaderCalls, loaded, calls>>
    /\ UNCHANGED <<pipelineVars, providerVars>>

\* the catch block of enqueueLoad: flag the error when applying, rethrow
Catch ==
    /\ rejected # <<>>
    /\ LET f == Head(rejected)
       IN  /\ Commit(catchLoadError(State, isMountedRef, f.task.apply,
                                    f.error))
           /\ last' = Step("catch", f.task, "rejected", f.error, FALSE)
    /\ rejected' = Tail(rejected)
    /\ UNCHANGED <<phase, opts, env, cacheRef, effectLocale, locked, waiters,
                   inflight, loaderCalls, loaded, calls>>
    /\ UNCHANGED <<pipelineVars, providerVars>>

Next ==
    \/ Mount
    \/ Unmount
    \/ AutoLoadEffect
    \/ \E raw \in RawNames : SetLocale(raw)
    \/ \E names \in PreloadLists : Preload(names)
    \/ Acquire
    \/ \E i \in 1..Len(inflight) : \E d \in Dictionaries : LoaderResolve(i, d)
    \/ \E i \in 1..Len(inflight) : LoaderReject(i)
    \/ Catch

Spec == Init /\ [][Next]_vars

-----------------------------------------------------------------------------
(* Construction alone, over every shape of options and stored value *)

StoredValues == {None, <<>>, <<SP>>, JA, <<SP>> \o JA \o <<SP>>}

InitialLocaleValues == {None, <<>>, <<SP, SP>>, EN, EN \o <<SP>>}

LocalesValues == {None, <<>>, << <<SP>>, FR >>, << <<>> >>, << <<SP>> \o FR, EN >>}

FallbackLocaleValues == {None, <<SP>>, <<SP>> \o DE}

InitConstruct ==
    /\ phase = "new"
    /\ opts \in [storageKey : BOOLEAN, initialLocale : InitialLocaleValues,
                 locales : LocalesValues, fallbackLocale : FallbackLocaleValues]
    /\ env \in [canUseStorage : BOOLEAN, getItemThrows : BOOLEAN]
    /\ storage \in StoredValues
    /\ cacheRef = [l \in Locales |-> None]
    /\ localeRef = <<>>
    /\ localeState = None
    /\ status = None
    /\ dictionary = None
    /\ error = None
    /\ effectLocale = None
    /\ locked = FALSE
    /\ waiters = <<>>
    /\ inflight = <<>>
    /\ rejected = <<>>
    /\ loaderCalls = [l \in Locales |-> 0]
    /\ loaded = {}
    /\ calls = 0
    /\ last = Step("none", NoTask, "pending", None, FALSE)
    /\ PipelineIdle
    /\ ProviderIdle

\* the first render: the useState initialisers
Construct ==
    /\ phase = "new"
    /\ phase' = "rendered"
    /\ localeState' = resolveInitialLocale(opts, env, storage)
    /\ status' = "idle"
    /\ dictionary' = EmptyDictionary
    /\ error' = None
    /\ last' = Step("init", NoTask, "pending", None, FALSE)
    /\ UNCHANGED <<opts, env, storage, cacheRef, localeRef, effectLocale,
                   locked, waiters, inflight, rejected, loaderCalls, loaded,
                   calls>>
    /\ UNCHANGED <<pipelineVars, providerVars>>

SpecInit == InitConstruct /\ [][Construct]_vars

-----------------------------------------------------------------------------
(* The build-time pipeline (vite plugin): characters and path helpers *)

Lower == <<"a", "b", "c", "d", "e", "f", "g", "h", "i", "j", "k", "l", "m",
           "n", "o", "p", "q", "r", "s", "t", "u", "v", "w", "x", "y", "z">>

Upper == <<"A", "B", "C", "D", "E", "F", "G", "H", "I", "J", "K", "L", "M",
           "N", "O", "P", "Q", "R", "S", "T", "U", "V", "W", "X", "Y", "Z">>

Digits == <<"0", "1", "2", "3", "4", "5", "6", "7", "8", "9">>

Range(s) == {s[i] : i \in DOMAIN s}

IndexOf(s, x) == CHOOSE i \in DOMAIN s : s[i] = x

\* String.prototype.charCodeAt, for the characters the model uses
charCodeAt(c) ==
    CASE c \in Range(Lower) -> 96 + IndexOf(Lower, c)
      [] c \in Range(Upper) -> 64 + IndexOf(Upper, c)
      [] c \in Range(Digits) -> 47 + IndexOf(Digits, c)
      [] c = " " -> 32
      [] c = "$" -> 36
      [] c = "-" -> 45
      [] c = "." -> 46
      [] c = ":" -> 58
      [] c = "_" -> 95
      [] c = "{" -> 123
      [] c = "}" -> 125

\* a < b as Array.prototype.sort() without a comparator decides it:
\* by UTF-16 code units
RECURSIVE codeUnitLess(_, _)
codeUnitLess(a, b) ==
    IF b = <<>> THEN FALSE
    ELSE IF a = <<>> THEN TRUE
    ELSE IF Head(a) = Head(b) THEN codeUnitLess(Tail(a), Tail(b))
    ELSE charCodeAt(Head(a)) < charCodeAt(Head(b))

\* the collation weight of a character at the first level (root collation:
\* punctuation, then digits, then letters whatever their case)
primaryWeight(c) ==
    CASE c = "_" -> 1
      [] c = "-" -> 2
      [] c = "." -> 3
      [] c = "$" -> 4
      [] c \in Range(Digits) -> 10 + IndexOf(Digits, c)
      [] c \in Range(Lower) -> 20 + IndexOf(Lower, c)
      [] c \in Range(Upper) -> 20 + IndexOf(Upper, c)

RECURSIVE primaryCompare(_, _)
primaryCompare(a, b) ==
    IF a = <<>> /\ b = <<>> THEN 0
    ELSE IF a = <<>> THEN -1
    ELSE IF b = <<>> THEN 1
    ELSE IF primaryWeight(Head(a)) = primaryWeight(Head(b))
        THEN primaryCompare(Tail(a), Tail(b))
    ELSE IF primaryWeight(Head(a)) < primaryWeight(Head(b)) THEN -1 ELSE 1

\* strings of equal first-level weight: lower case sorts first
RECURSIVE caseCompare(_, _)
caseCompare(a, b) ==
    IF a = <<>> \/ b = <<>> THEN 0
    ELSE IF Head(a) = Head(b) THEN caseCompare(Tail(a), Tail(b))
    ELSE IF Head(a) \in Range(Lower) THEN -1 ELSE 1

\* String.prototype.localeCompare
localeCompare(a, b) ==
    IF primaryCompare(a, b) # 0 THEN primaryCompare(a, b) ELSE caseCompare(a, b)

\* the index of the last "." of a name, 0 when it has none
lastDot(file) ==
    LET dots == {i \in DOMAIN file : file[i] = "."}
    IN  IF dots = {} THEN 0 ELSE CHOOSE i \in dots : \A j \in dots : j <= i

\* path.extname: from the last "." on, nothing for a name that has no "."
\* or only a leading one
extname(file) ==
    IF lastDot(file) <= 1 THEN <<>>
    ELSE SubSeq(file, lastDot(file), Len(file))

\* path.basename(file, ext)
basename(file, ext) ==
    IF /\ ext # <<>>
       /\ Len(file) > Len(ext)
       /\ SubSeq(file, Len(file) - Len(ext) + 1, Len(file)) = ext
        THEN SubSeq(file, 1, Len(file) - Len(ext))
        ELSE file

JSON == <<".", "j", "s", "o", "n">>

JSONC == <<".", "j", "s", "o", "n", "c">>

JSON5 == <<".", "j", "s", "o", "n", "5">>

-----------------------------------------------------------------------------
(* The locale source scanner: getLocaleFiles *)

\* a JavaScript Map, as the sequence of its entries in insertion order
mapHas(map, k) == \E i \in DOMAIN map : map[i].key = k

mapGet(map, k) == map[CHOOSE i \in DOMAIN map : map[i].key = k].value

mapSet(map, k, v) ==
    IF mapHas(map, k)
        THEN [i \in DOMAIN map |->
                 IF map[i].key = k THEN [key |-> k, value |-> v] ELSE map[i]]
        ELSE Append(map, [key |-> k, value |-> v])

mapValues(map) == [i \in DOMAIN map |-> map[i].value]

\* an entry of the locale directory; content is what readFile returns
DirEntry(name, isFile, content) ==
    [name |-> name, isFile |-> isFile, content |-> content]

\* fs.stat(join(localeDir, file))
stat(dir, file) == dir.entries[CHOOSE i \in DOMAIN dir.entries : dir.entries[i].name = file]

\* Array.prototype.indexOf
indexOf(list, x) ==
    IF \E i \in DOMAIN list : list[i] = x
        THEN (CHOOSE i \in DOMAIN list :
                 list[i] = x /\ \A j \in 1..(i - 1) : list[j] # x) - 1
        ELSE -1

\* files.sort(): insertion of one name into an ascending list
RECURSIVE sortInsert(_, _)
sortInsert(sorted, file) ==
    IF sorted = <<>> THEN <<file>>
    ELSE IF codeUnitLess(file, Head(sorted)) THEN <<file>> \o sorted
    ELSE <<Head(sorted)>> \o sortInsert(Tail(sorted), file)

RECURSIVE sort(_)
sort(files) ==
    IF files = <<>> THEN <<>>
    ELSE sortInsert(sort(SubSeq(files, 1, Len(files) - 1)), files[Len(files)])

\* Array.prototype.reverse
reverse(list) == [i \in DOMAIN list |-> list[Len(list) + 1 - i]]

compareLocaleFiles_unlistedFirst(a, b, priorityOrder) ==
    LET aIndex == indexOf(priorityOrder, basename(a, extname(a)))
        bIndex == indexOf(priorityOrder, basename(b, extname(b)))
    IN  IF aIndex # -1 /\ bIndex # -1 THEN aIndex - bIndex
        ELSE IF aIndex # -1 /\ bIndex = -1 THEN 1
        ELSE IF aIndex = -1 /\ bIndex # -1 THEN -1
        ELSE localeCompare(a, b)

compareLocaleFiles_unsorted(a, b, priorityOrder) ==
    LET aIndex == indexOf(priorityOrder, basename(a, extname(a)))
        bIndex == indexOf(priorityOrder, basename(b, extname(b)))
    IN  IF aIndex # -1 /\ bIndex # -1 THEN aIndex - bIndex
        ELSE IF aIndex # -1 /\ bIndex = -1 THEN -1
        ELSE IF aIndex = -1 /\ bIndex # -1 THEN 1
        ELSE 0

\* the comparator of the final sort
compareLocaleFiles(a, b, priorityOrder) ==
    LET aBase == basename(a, extname(a))
        bBase == basename(b, extname(b))
        aIndex == indexOf(priorityOrder, aBase)
        bIndex == indexOf(priorityOrder, bBase)
    IN  IF aIndex # -1 /\ bIndex # -1 THEN aIndex - bIndex
        ELSE IF aIndex # -1 /\ bIndex = -1 THEN -1
        ELSE IF aIndex = -1 /\ bIndex # -1 THEN 1
        ELSE localeCompare(a, b)

\* filteredFiles.sort(comparator), a stable sort: one file is put after every
\* file of the ascending list that does not compare greater than it
RECURSIVE sortInsertBy(_, _, _)
sortInsertBy(sorted, file, priorityOrder) ==
    IF sorted = <<>> THEN <<file>>
    ELSE IF compareLocaleFiles(file, Head(sorted), priorityOrder) < 0
        THEN <<file>> \o sorted
    ELSE <<Head(sorted)>> \o sortInsertBy(Tail(sorted), file, priorityOrder)

RECURSIVE sortBy(_, _)
sortBy(files, priorityOrder) ==
    IF files = <<>> THEN <<>>
    ELSE sortInsertBy(sortBy(SubSeq(files, 1, Len(files) - 1), priorityOrder),
                      files[Len(files)], priorityOrder)

keepLocaleFile_firstSeen(dir, fileMap, file) ==
    LET ext == extname(file)
        bn == basename(file, ext)
    IN  IF stat(dir, file).isFile /\ ext \in {JSON5, JSONC, JSON}
               /\ ~mapHas(fileMap, bn)
           THEN mapSet(fileMap, bn, file)
           ELSE fileMap

\* the body of the loop over the directory listing
keepLocaleFile(dir, fileMap, file) ==
    LET ext == extname(file)
        bn == basename(file, ext)
    IN  IF stat(dir, file).isFile /\ ext \in {JSON5, JSONC, JSON}
           THEN IF \/ ~mapHas(fileMap, bn)
                   \/ ext = JSON5
                   \/ (ext = JSONC /\ extname(mapGet(fileMap, bn)) = JSON)
                    THEN mapSet(fileMap, bn, file)
                    ELSE fileMap
           ELSE fileMap

RECURSIVE collectLocaleFiles(_, _, _)
collectLocaleFiles(dir, files, fileMap) ==
    IF files = <<>> THEN fileMap
    ELSE collectLocaleFiles(dir, Tail(files), keepLocaleFile(dir, fileMap, Head(files)))

\* readdir(localeDir): the names, in the order the file system lists them
readdir(dir) == [i \in DOMAIN dir.entries |-> dir.entries[i].name]

getLocaleFiles(dir, priorityOrder) ==
    IF ~dir.exists THEN <<>>
    ELSE LET files == readdir(dir)
             fileMap == collectLocaleFiles(dir, reverse(sort(files)), <<>>)
         IN  sortBy(mapValues(fileMap), priorityOrder)

-----------------------------------------------------------------------------
(* The scanner alone, over directory listings and priority lists *)

MaxPriority == 2

ENUS == <<"e", "n", "-", "u", "s">>

TXT == <<".", "t", "x", "t">>

\* the sequences that hold each member of a set once
RECURSIVE Orderings(_)
Orderings(S) ==
    IF S = {} THEN {<<>>}
    ELSE UNION {{<<x>> \o rest : rest \in Orderings(S \ {x})} : x \in S}

\* the subsequences of a sequence
RECURSIVE SubSequences(_)
SubSequences(s) ==
    IF s = <<>> THEN {<<>>}
    ELSE LET rest == SubSequences(Tail(s))
         IN  rest \cup {<<Head(s)>> \o r : r \in rest}

\* the format variants of en, listed in any order
EnVariants ==
    UNION {Orderings(S) : S \in SUBSET {DirEntry(EN \o JSON, TRUE, None),
                                        DirEntry(EN \o JSONC, TRUE, None),
                                        DirEntry(EN \o JSON5, TRUE, None)}}

\* other entries: more locales, a text file, a directory named like a locale
\* file, a dot file
OtherEntries ==
    SubSequences(<< DirEntry(JA \o JSON5, TRUE, None),
                    DirEntry(FALLBACK \o JSON, TRUE, None),
                    DirEntry(JA \o JSONC, FALSE, None),
                    DirEntry(EN \o TXT, TRUE, None),
                    DirEntry(ENUS \o JSON, TRUE, None),
                    DirEntry(JSON, TRUE, None),
                    DirEntry(JA \o JSON, TRUE, None) >>)

ScanDirectories ==
    {[exists |-> TRUE, entries |-> a \o b] : a \in EnVariants, b \in OtherEntries}

PriorityLists ==
    UNION {[1..n -> {EN, FALLBACK, JA}] : n \in 0..MaxPriority}

\* a controller that is not running
ControllerIdle ==
    /\ phase = "new"
    /\ opts = Options(FALSE, None, None, None)
    /\ env = Env(FALSE, FALSE)
    /\ storage = None
    /\ cacheRef = [l \in Locales |-> None]
    /\ localeRef = <<>>
    /\ localeState = None
    /\ status = None
    /\ dictionary = None
    /\ error = None
    /\ effectLocale = None
    /\ locked = FALSE
    /\ waiters = <<>>
    /\ inflight = <<>>
    /\ rejected = <<>>
    /\ loaderCalls = [l \in Locales |-> 0]
    /\ loaded = {}
    /\ calls = 0
    /\ last = Step("none", NoTask, "pending", None, FALSE)

InitScan ==
    /\ ControllerIdle
    /\ ProviderIdle
    /\ pc = "scan"
    /\ localeDir \in ScanDirectories
    /\ fallbackPriorityOrder \in PriorityLists
    /\ localeFiles = <<>>
    /\ outputFile = [written |-> FALSE]
    /\ originalKeys = <<>>
    /\ usedIdentifiers = {}
    /\ sanitizedKeys = <<>>
    /\ previousPass = <<>>

Scan ==
    /\ pc = "scan"
    /\ pc' = "scanned"
    /\ localeFiles' = getLocaleFiles(localeDir, fallbackPriorityOrder)
    /\ UNCHANGED <<localeDir, fallbackPriorityOrder, outputFile, originalKeys,
                   usedIdentifiers, sanitizedKeys, previousPass>>
    /\ UNCHANGED <<controllerVars, providerVars>>

SpecScan == InitScan /\ [][Scan]_vars

-----------------------------------------------------------------------------
(* The identifier sanitizer: sanitizeIdentifier, ensureUniqueIdentifier *)

RESERVED_WORDS ==
    { <<"b", "r", "e", "a", "k">>, <<"c", "a", "s", "e">>,
      <<"c", "a", "t", "c", "h">>, <<"c", "l", "a", "s", "s">>,
      <<"c", "o", "n", "s", "t">>,
      <<"c", "o", "n", "t", "i", "n", "u", "e">>,
      <<"d", "e", "b", "u", "g", "g", "e", "r">>,
      <<"d", "e", "f", "a", "u", "l", "t">>,
      <<"d", "e", "l", "e", "t", "e">>, <<"d", "o">>, <<"e", "l", "s", "e">>,
      <<"e", "n", "u", "m">>, <<"e", "x", "p", "o", "r", "t">>,
      <<"e", "x", "t", "e", "n", "d", "s">>, <<"f", "a", "l", "s", "e">>,
      <<"f", "i", "n", "a", "l", "l", "y">>, <<"f", "o", "r">>,
      <<"f", "r", "o", "m">>, <<"f", "u", "n", "c", "t", "i", "o", "n">>,
      <<"g", "e", "t">>, <<"i", "f">>,
      <<"i", "m", "p", "l", "e", "m", "e", "n", "t", "s">>,
      <<"i", "m", "p", "o", "r", "t">>, <<"i", "n">>,
      <<"i", "n", "f", "e", "r">>,
      <<"i", "n", "s", "t", "a", "n", "c", "e", "o", "f">>,
      <<"i", "n", "t", "e", "r", "f", "a", "c", "e">>, <<"i", "s">>,
      <<"k", "e", "y", "o", "f">>, <<"l", "e", "t">>,
      <<"m", "o", "d", "u", "l", "e">>,
      <<"n", "a", "m", "e", "s", "p", "a", "c", "e">>,
      <<"n", "e", "v", "e", "r">>, <<"n", "e", "w">>, <<"n", "u", "l", "l">>,
      <<"n", "u", "m", "b", "e", "r">>, <<"o", "b", "j", "e", "c", "t">>,
      <<"o", "f">>, <<"p", "a", "c", "k", "a", "g", "e">>,
      <<"p", "r", "i", "v", "a", "t", "e">>,
      <<"p", "r", "o", "t", "e", "c", "t", "e", "d">>,
      <<"p", "u", "b", "l", "i", "c">>,
      <<"r", "e", "a", "d", "o", "n", "l", "y">>,
      <<"r", "e", "q", "u", "i", "r", "e">>,
      <<"r", "e", "t", "u", "r", "n">>, <<"s", "e", "t">>,
      <<"s", "t", "a", "t", "i", "c">>, <<"s", "t", "r", "i", "n", "g">>,
      <<"s", "u", "p", "e", "r">>, <<"s", "w", "i", "t", "c", "h">>,
      <<"s", "y", "m", "b", "o", "l">>, <<"t", "h", "i", "s">>,
      <<"t", "h", "r", "o", "w">>, <<"t", "r", "u", "e">>, <<"t", "r", "y">>,
      <<"t", "y", "p", "e">>, <<"t", "y", "p", "e", "o", "f">>,
      <<"u", "n", "d", "e", "f", "i", "n", "e", "d">>, <<"v", "a", "r">>,
      <<"v", "o", "i", "d">>, <<"w", "h", "i", "l", "e">>,
      <<"w", "i", "t", "h">>, <<"y", "i", "e", "l", "d">> }

\* [A-Za-z0-9_$]
isIdentifierPart(c) ==
    c \in Range(Lower) \cup Range(Upper) \cup Range(Digits) \cup {"_", "$"}

\* [A-Za-z_$]
isIdentifierStart(c) == c \in Range(Lower) \cup Range(Upper) \cup {"_", "$"}

sanitizeIdentifier(input) ==
    LET replaced == [i \in DOMAIN input |->
                        IF isIdentifierPart(input[i]) THEN input[i] ELSE "_"]
        nonEmpty == IF Len(replaced) = 0 THEN <<"_">> ELSE replaced
        started == IF ~isIdentifierStart(nonEmpty[1])
                      THEN <<"_">> \o nonEmpty ELSE nonEmpty
    IN  IF started \in RESERVED_WORDS THEN <<"_">> \o started ELSE started

\* the decimal digits of a positive number, as a template literal prints it
RECURSIVE numberToString(_)
numberToString(n) ==
    IF n < 10 THEN <<Digits[n + 1]>>
    ELSE numberToString(n \div 10) \o <<Digits[(n % 10) + 1]>>

\* the while loop of ensureUniqueIdentifier
RECURSIVE uniqueCandidate(_, _, _, _)
uniqueCandidate(baseIdentifier, used, candidate, index) ==
    IF candidate \in used
        THEN uniqueCandidate(baseIdentifier, used,
                             baseIdentifier \o <<"_">> \o numberToString(index),
                             index + 1)
        ELSE candidate

ensureUniqueIdentifier_suffixOnce(baseIdentifier, used) ==
    LET candidate == IF baseIdentifier \in used
                        THEN baseIdentifier \o <<"_">> \o numberToString(1)
                        ELSE baseIdentifier
    IN  [candidate |-> candidate, usedIdentifiers |-> used \cup {candidate}]

\* returns the identifier and the used-set with the identifier added to it
ensureUniqueIdentifier(baseIdentifier, used) ==
    LET candidate == uniqueCandidate(baseIdentifier, used, baseIdentifier, 1)
    IN  [candidate |-> candidate, usedIdentifiers |-> used \cup {candidate}]

-----------------------------------------------------------------------------
(* The sanitizer alone: the identifier pass of generateTypeScriptCode over a
   sequence of distinct message keys, run twice *)

MaxKeys == 3

KeySamples ==
    { <<"A", "-", "B">>, <<"A", ".", "B">>, <<"A", "_", "B">>,
      <<"A", "_", "B", "_", "1">>, <<"A", "_", "B", "_", "2">>,
      <<>>, <<"1">>, <<"d", "o">>, <<"_", "d", "o">> }

\* the sequences of distinct keys
RECURSIVE KeySequences(_, _)
KeySequences(keys, n) ==
    IF n = 0 THEN {<<>>}
    ELSE LET shorter == KeySequences(keys, n - 1)
         IN  shorter \cup {Append(s, k) : s \in shorter, k \in keys}

DistinctKeySequences ==
    {s \in KeySequences(KeySamples, MaxKeys) :
        \A i, j \in DOMAIN s : i # j => s[i] # s[j]}

InitSanitize ==
    /\ ControllerIdle
    /\ ProviderIdle
    /\ pc = "generate"
    /\ localeDir = [exists |-> FALSE, entries |-> <<>>]
    /\ fallbackPriorityOrder = <<>>
    /\ localeFiles = <<>>
    /\ outputFile = [written |-> FALSE]
    /\ originalKeys \in DistinctKeySequences
    /\ usedIdentifiers = {}
    /\ sanitizedKeys = <<>>
    /\ previousPass = <<>>

\* the map callback for the next entry: sanitize, then make unique
AssignIdentifier ==
    /\ pc \in {"generate", "regenerate"}
    /\ Len(sanitizedKeys) < Len(originalKeys)
    /\ LET originalKey == originalKeys[Len(sanitizedKeys) + 1]
           baseIdentifier == sanitizeIdentifier(originalKey)
           unique == ensureUniqueIdentifier(baseIdentifier, usedIdentifiers)
       IN  /\ sanitizedKeys' = Append(sanitizedKeys, unique.candidate)
           /\ usedIdentifiers' = unique.usedIdentifiers
    /\ UNCHANGED <<pc, localeDir, fallbackPriorityOrder, localeFiles, outputFile,
                   originalKeys, previousPass>>
    /\ UNCHANGED <<controllerVars, providerVars>>

\* generateTypeScriptCode is called again for the same entries: a new Set
Regenerate ==
    /\ pc = "generate"
    /\ Len(sanitizedKeys) = Len(originalKeys)
    /\ pc' = "regenerate"
    /\ previousPass' = sanitizedKeys
    /\ sanitizedKeys' = <<>>
    /\ usedIdentifiers' = {}
    /\ UNCHANGED <<localeDir, fallbackPriorityOrder, localeFiles, outputFile,
                   originalKeys>>
    /\ UNCHANGED <<controllerVars, providerVars>>

SpecSanitize == InitSanitize /\ [][AssignIdentifier \/ Regenerate]_vars

-----------------------------------------------------------------------------
(* The placeholder parser: parsePlaceholders, parseMessage *)

TypeString == <<"s", "t", "r", "i", "n", "g">>

TypeNumber == <<"n", "u", "m", "b", "e", "r">>

TypeDate == <<"d", "a", "t", "e">>

\* \w
isWord(c) == c \in Range(Lower) \cup Range(Upper) \cup Range(Digits) \cup {"_"}

\* where the run of \w characters that starts at position i ends (the
\* position after its last character)
RECURSIVE wordEnd(_, _)
wordEnd(message, i) ==
    IF i <= Len(message) /\ isWord(message[i]) THEN wordEnd(message, i + 1) ELSE i

NoMatch == [matched |-> FALSE, name |-> <<>>, type |-> <<>>, end |-> 0]

\* PLACEHOLDER_REGEX /\{(\w+)(?::(\w+))?\}/ tried at position i; an omitted
\* type is 'string'
matchPlaceholder(message, i) ==
    IF message[i] # "{" THEN NoMatch
    ELSE LET n == wordEnd(message, i + 1)
         IN  IF n = i + 1 \/ n > Len(message) THEN NoMatch
             ELSE IF message[n] = "}"
                THEN [matched |-> TRUE, name |-> SubSeq(message, i + 1, n - 1),
                      type |-> TypeString, end |-> n]
             ELSE IF message[n] = ":"
                THEN LET t == wordEnd(message, n + 1)
                     IN  IF t > n + 1 /\ t <= Len(message) /\ message[t] = "}"
                            THEN [matched |-> TRUE,
                                  name |-> SubSeq(message, i + 1, n - 1),
                                  type |-> SubSeq(message, n + 1, t - 1),
                                  end |-> t]
                            ELSE NoMatch
             ELSE NoMatch

\* the while loop over PLACEHOLDER_REGEX.exec
RECURSIVE execPlaceholders(_, _, _)
execPlaceholders(message, i, position) ==
    IF i > Len(message) THEN <<>>
    ELSE LET match == matchPlaceholder(message, i)
         IN  IF match.matched
                THEN <<[name |-> match.name, type |-> match.type,
                        position |-> position]>>
                     \o execPlaceholders(message, match.end + 1, position + 1)
                ELSE execPlaceholders(message, i + 1, position)

parsePlaceholders(message) == execPlaceholders(message, 1, 0)

parseMessage(key, messageData, fallback) ==
    [kind |-> "message", key |-> key, template |-> messageData,
     placeholders |-> parsePlaceholders(messageData), fallback |-> fallback]

-----------------------------------------------------------------------------
(* JavaScript objects used as dictionaries: a property that is not an own
   property is looked up on Object.prototype *)

CONSTRUCTOR == <<"c", "o", "n", "s", "t", "r", "u", "c", "t", "o", "r">>

VALUEOF == <<"v", "a", "l", "u", "e", "O", "f">>

HASOWNPROPERTY ==
    <<"h", "a", "s", "O", "w", "n", "P", "r", "o", "p", "e", "r", "t", "y">>

\* names every object literal inherits
ObjectPrototype == {CONSTRUCTOR, VALUEOF, HASOWNPROPERTY}

Undefined == [kind |-> "undefined"]

\* the function object an inherited name yields
InheritedFunction(name) == [kind |-> "function", name |-> name]

\* object[name], the object given by its own properties
getProperty(object, name) ==
    IF mapHas(object, name) THEN mapGet(object, name)
    ELSE IF name \in ObjectPrototype THEN InheritedFunction(name)
    ELSE Undefined

isTruthy(value) == value.kind # "undefined"

-----------------------------------------------------------------------------
(* The type reconciler: checkPlaceholderTypeConsistency *)

\* what readFile and JSON5.parse give for a locale file: a failure, or the
\* entries of the object in source order
ParseError == [parsed |-> FALSE, entries |-> <<>>]

LocaleData(entries) == [parsed |-> TRUE, entries |-> entries]

\* an entry whose value is a string, resp. is not one
StringEntry(key, value) == [key |-> key, isString |-> TRUE, value |-> value]

OtherEntry(key) == [key |-> key, isString |-> FALSE, value |-> <<>>]

\* Set.prototype.add on a set kept in insertion order
setAdd(set, x) == IF x \in Range(set) THEN set ELSE Append(set, x)

\* Object.entries(localeData).forEach(...): the string entries of one file
RECURSIVE collectEntries(_, _)
collectEntries(entries, acc) ==
    IF entries = <<>> THEN acc
    ELSE LET entry == Head(entries)
         IN  collectEntries(Tail(entries),
                 IF entry.isString
                    THEN [messages |-> mapSet(acc.messages, entry.key,
                                          parseMessage(entry.key, entry.value, entry.value)),
                          keys |-> setAdd(acc.keys, entry.key)]
                    ELSE acc)

\* the loop that reads every locale file
RECURSIVE readLocaleFiles(_, _, _)
readLocaleFiles(dir, files, acc) ==
    IF files = <<>> THEN acc
    ELSE LET file == Head(files)
             localeData == stat(dir, file).content
             read == collectEntries(localeData.entries,
                                    [messages |-> <<>>, keys |-> acc.allMessageKeys])
         IN  readLocaleFiles(dir, Tail(files),
                 IF localeData.parsed
                    THEN [acc EXCEPT !.localeMessages = mapSet(@, file, read.messages),
                                     !.allMessageKeys = read.keys]
                    ELSE [acc EXCEPT !.invalidFiles = Append(@, file)])

\* localeMessages[file] && localeMessages[file][messageKey]
messageOf(localeMessages, file, messageKey) ==
    IF mapHas(localeMessages, file)
        THEN getProperty(mapGet(localeMessages, file), messageKey)
        ELSE Undefined

RECURSIVE selectMessage_firstFile(_, _, _, _)
selectMessage_firstFile(files, localeMessages, messageKey, i) ==
    IF files = <<>> THEN Undefined
    ELSE IF isTruthy(messageOf(localeMessages, Head(files), messageKey))
        THEN messageOf(localeMessages, Head(files), messageKey)
    ELSE selectMessage_firstFile(Tail(files), localeMessages, messageKey, i)

\* the selection loop, from the last file down to the first
RECURSIVE selectMessage(_, _, _, _)
selectMessage(files, localeMessages, messageKey, i) ==
    IF i < 1 THEN Undefined
    ELSE IF isTruthy(messageOf(localeMessages, files[i], messageKey))
        THEN messageOf(localeMessages, files[i], messageKey)
    ELSE selectMessage(files, localeMessages, messageKey, i - 1)

\* placeholderTypeMap[name][file] = type. placeholderTypeMap[name] is created
\* when it is falsy; for a name inherited from Object.prototype it is the
\* inherited function, and the type becomes a property of that function
recordType(types, name, file, type) ==
    IF mapHas(types.placeholderTypeMap, name)
        THEN [types EXCEPT !.placeholderTypeMap =
                 mapSet(@, name, mapSet(mapGet(@, name), file, type))]
    ELSE IF name \in ObjectPrototype
        THEN [types EXCEPT !.functionProperties =
                 mapSet(@, name,
                        mapSet(IF mapHas(@, name) THEN mapGet(@, name) ELSE <<>>,
                               file, type))]
    ELSE [types EXCEPT !.placeholderTypeMap =
             mapSet(@, name, mapSet(<<>>, file, type))]

\* the loop over the placeholders of one file's message
RECURSIVE recordPlaceholders(_, _, _)
recordPlaceholders(placeholders, file, types) ==
    IF placeholders = <<>> THEN types
    ELSE recordPlaceholders(Tail(placeholders), file,
             recordType(types, Head(placeholders).name, file, Head(placeholders).type))

\* the loop that collects the placeholder types of every file; iterating
\* the placeholders of an inherited function throws a TypeError
RECURSIVE collectTypes(_, _, _, _)
collectTypes(files, localeMessages, messageKey, types) ==
    IF files = <<>> \/ types.thrown THEN types
    ELSE LET message == messageOf(localeMessages, Head(files), messageKey)
         IN  collectTypes(Tail(files), localeMessages, messageKey,
                 IF message.kind = "message"
                    THEN recordPlaceholders(message.placeholders, Head(files), types)
                 ELSE IF message.kind = "function"
                    THEN [types EXCEPT !.thrown = TRUE]
                 ELSE types)

\* [...new Set(Object.values(typesByFile))]
uniqueTypes(typesByFile) == Range(mapValues(typesByFile))

conflictOf(paramName, typesByFile) ==
    [parameterName |-> paramName,
     conflicts |-> [i \in DOMAIN typesByFile |->
                       [localeFile |-> typesByFile[i].key, type |-> typesByFile[i].value]]]

\* the loop over Object.entries(placeholderTypeMap)
findConflicts(placeholderTypeMap) ==
    LET conflicting == SelectSeq(placeholderTypeMap,
                           LAMBDA e : Cardinality(uniqueTypes(e.value)) > 1)
    IN  [i \in DOMAIN conflicting |->
            conflictOf(conflicting[i].key, conflicting[i].value)]

\* Object.values(placeholderTypeMap[placeholder.name]): of the own entry, or
\* of the inherited function with the properties it was given
typesByFileOf(types, name) ==
    IF mapHas(types.placeholderTypeMap, name)
        THEN mapValues(mapGet(types.placeholderTypeMap, name))
    ELSE IF name \in ObjectPrototype /\ mapHas(types.functionProperties, name)
        THEN mapValues(mapGet(types.functionProperties, name))
    ELSE <<>>

finalPlaceholder_positionLost(types, placeholder) ==
    LET explicitTypes == SelectSeq(typesByFileOf(types, placeholder.name),
                                   LAMBDA type : type # TypeString)
    IN  IF explicitTypes # <<>>
           THEN [name |-> placeholder.name, type |-> explicitTypes[1], position |-> 0]
           ELSE placeholder

\* the final type of one placeholder of the selected message
finalPlaceholder(types, placeholder) ==
    LET explicitTypes == SelectSeq(typesByFileOf(types, placeholder.name),
                                   LAMBDA type : type # TypeString)
    IN  IF explicitTypes # <<>>
           THEN [placeholder EXCEPT !.type = explicitTypes[1]]
           ELSE placeholder

\* the body of the loop over allMessageKeys
reconcileKey(files, localeMessages, messageKey, acc) ==
    LET selectedMessage == selectMessage(files, localeMessages, messageKey,
                                         Len(files))
        types == collectTypes(files, localeMessages, messageKey,
                     [placeholderTypeMap |-> <<>>,
                      functionProperties |-> acc.functionProperties,
                      thrown |-> FALSE])
        conflicts == findConflicts(types.placeholderTypeMap)
    IN  IF ~isTruthy(selectedMessage) THEN acc
        ELSE IF types.thrown THEN [acc EXCEPT !.thrown = TRUE]
        ELSE [acc EXCEPT
                 !.functionProperties = types.functionProperties,
                 !.warnings = IF conflicts # <<>>
                                 THEN Append(@, [key |-> messageKey, conflicts |-> conflicts])
                                 ELSE @,
                 !.aggregatedMessages =
                     mapSet(@, messageKey,
                            [selectedMessage EXCEPT !.placeholders =
                                [i \in DOMAIN selectedMessage.placeholders |->
                                    finalPlaceholder(types, selectedMessage.placeholders[i])]])]

RECURSIVE reconcileKeys(_, _, _, _)
reconcileKeys(files, localeMessages, messageKeys, acc) ==
    IF messageKeys = <<>> \/ acc.thrown THEN acc
    ELSE reconcileKeys(files, localeMessages, Tail(messageKeys),
             reconcileKey(files, localeMessages, Head(messageKeys), acc))

\* thrown: the promise is rejected with a TypeError instead of a result
checkPlaceholderTypeConsistency(files, dir) ==
    LET read == readLocaleFiles(dir, files,
                    [localeMessages |-> <<>>, allMessageKeys |-> <<>>,
                     invalidFiles |-> <<>>])
        reconciled == reconcileKeys(files, read.localeMessages, read.allMessageKeys,
                          [aggregatedMessages |-> <<>>, warnings |-> <<>>,
                           functionProperties |-> <<>>, thrown |-> FALSE])
    IN  [aggregatedMessages |-> reconciled.aggregatedMessages,
         warnings |-> reconciled.warnings,
         invalidFiles |-> read.invalidFiles,
         thrown |-> reconciled.thrown]

-----------------------------------------------------------------------------
(* The code generator: generateTypeScriptCode, generateMessageFile *)

BOOLEAN_ == <<"b", "o", "o", "l", "e", "a", "n">>

\* the TypeScript type generateObjectTypeString prints for a placeholder type
tsType(type) ==
    CASE type = TypeNumber -> "number"
      [] type = BOOLEAN_ -> "boolean"
      [] type = TypeDate -> "Date"
      [] OTHER -> "string"

generateObjectTypeString(placeholders) ==
    [i \in DOMAIN placeholders |->
        [name |-> placeholders[i].name, type |-> tsType(placeholders[i].type)]]

\* warningMap.get(originalKey): the conflicts to print in the JSDoc block
warningOf(warnings, originalKey) ==
    IF \E i \in DOMAIN warnings : warnings[i].key = originalKey
        THEN warnings[CHOOSE i \in DOMAIN warnings :
                          /\ warnings[i].key = originalKey
                          /\ \A j \in (i + 1)..Len(warnings) : warnings[j].key # originalKey
                     ].conflicts
        ELSE <<>>

\* entries.map(...): one generated item per aggregated message
RECURSIVE messageItems(_, _, _)
messageItems(entries, warnings, used) ==
    IF entries = <<>> THEN <<>>
    ELSE LET originalKey == Head(entries).key
             message == Head(entries).value
             unique == ensureUniqueIdentifier(sanitizeIdentifier(originalKey), used)
         IN  <<[sanitizedKey |-> unique.candidate,
                key |-> originalKey,
                fallback |-> message.fallback,
                placeholders |-> message.placeholders,
                typeString |-> generateObjectTypeString(message.placeholders),
                conflicts |-> warningOf(warnings, originalKey)]>>
             \o messageItems(Tail(entries), warnings, unique.usedIdentifiers)

\* the generated source: its message items, the files named by the
\* "Failed to load" comment, the exported locales
generateTypeScriptCode(messages, warnings, invalidFiles, locales) ==
    [written |-> TRUE, failed |-> FALSE,
     messageItems |-> messageItems(messages, warnings, {}),
     invalidFiles |-> invalidFiles,
     locales |-> locales]

\* nothing written: the directory is missing (failed: an error was caught
\* and logged)
NotWritten(failed) ==
    [written |-> FALSE, failed |-> failed, messageItems |-> <<>>,
     invalidFiles |-> <<>>, locales |-> <<>>]

localeSymbolsOf_dropFirst(files, priorityOrder) ==
    LET symbols == [i \in DOMAIN files |-> basename(files[i], extname(files[i]))]
    IN  IF priorityOrder = <<>> THEN symbols
        ELSE SelectSeq(symbols, LAMBDA locale : locale # priorityOrder[1])

localeSymbolsOf(files, priorityOrder) ==
    LET symbols == [i \in DOMAIN files |-> basename(files[i], extname(files[i]))]
    IN  IF priorityOrder = <<>> THEN symbols
        ELSE SelectSeq(symbols, LAMBDA locale : locale # priorityOrder[Len(priorityOrder)])

generateMessageFile(dir, priorityOrder) ==
    IF ~dir.exists THEN NotWritten(FALSE)
    ELSE LET files == getLocaleFiles(dir, priorityOrder)
             checked == checkPlaceholderTypeConsistency(files, dir)
         IN  IF checked.thrown THEN NotWritten(TRUE)
             ELSE generateTypeScriptCode(checked.aggregatedMessages, checked.warnings,
                                         checked.invalidFiles,
                                         localeSymbolsOf(files, priorityOrder))

-----------------------------------------------------------------------------
(* The pipeline, over locale directories of up to four files *)

KeyA == <<"A">>

PlaceholderN == <<"n">>

\* the text {name} or {name:type}
Placeholder(name, type) ==
    IF type = <<>> THEN <<"{">> \o name \o <<"}">>
    ELSE <<"{">> \o name \o <<":">> \o type \o <<"}">>

\* what a file may say for key A: nothing, a value that is no string, a
\* text, a placeholder with and without a type, one placeholder twice
EntriesA ==
    { <<>>,
      <<OtherEntry(KeyA)>>,
      <<StringEntry(KeyA, <<"x">>)>>,
      <<StringEntry(KeyA, <<"y">>)>>,
      <<StringEntry(KeyA, Placeholder(PlaceholderN, <<>>))>>,
      <<StringEntry(KeyA, Placeholder(PlaceholderN, TypeNumber))>>,
      <<StringEntry(KeyA, Placeholder(PlaceholderN, TypeDate))>>,
      <<StringEntry(KeyA, Placeholder(PlaceholderN, TypeNumber)
                          \o Placeholder(PlaceholderN, <<>>))>>,
      <<StringEntry(KeyA, Placeholder(CONSTRUCTOR, <<>>))>>,
      <<StringEntry(KeyA, Placeholder(CONSTRUCTOR, TypeNumber))>> }

\* and for a key named constructor
EntriesConstructor ==
    { <<>>, <<StringEntry(CONSTRUCTOR, Placeholder(CONSTRUCTOR, TypeNumber))>> }

FileContents ==
    {ParseError} \cup {LocaleData(a \o c) : a \in EntriesA, c \in EntriesConstructor}

\* a file of the directory, or none
FileChoices(name) ==
    {<<>>} \cup {<<DirEntry(name, TRUE, content)>> : content \in FileContents}

\* en.json5, which the scanner prefers to en.json, is missing or unparsable
VariantChoices == {<<>>, <<DirEntry(EN \o JSON5, TRUE, ParseError)>>}

GenerateDirectories ==
    {[exists |-> FALSE, entries |-> <<>>]}
    \cup {[exists |-> TRUE, entries |-> e \o v \o f \o j] :
             e \in FileChoices(EN \o JSON),
             v \in VariantChoices,
             f \in FileChoices(FALLBACK \o JSON),
             j \in FileChoices(JA \o JSON)}

GeneratePriorityLists == {<<EN, FALLBACK>>, <<FALLBACK, EN>>, <<JA>>}

InitGenerate ==
    /\ ControllerIdle
    /\ ProviderIdle
    /\ pc = "build"
    /\ localeDir \in GenerateDirectories
    /\ fallbackPriorityOrder \in GeneratePriorityLists
    /\ localeFiles = <<>>
    /\ outputFile = NotWritten(FALSE)
    /\ originalKeys = <<>>
    /\ usedIdentifiers = {}
    /\ sanitizedKeys = <<>>
    /\ previousPass = <<>>

\* the buildStart hook: generateMessageFile
BuildStart ==
    /\ pc = "build"
    /\ pc' = "built"
    /\ localeFiles' = getLocaleFiles(localeDir, fallbackPriorityOrder)
    /\ outputFile' = generateMessageFile(localeDir, fallbackPriorityOrder)
    /\ UNCHANGED <<localeDir, fallbackPriorityOrder, originalKeys,
                   usedIdentifiers, sanitizedKeys, previousPass>>
    /\ UNCHANGED <<controllerVars, providerVars>>

SpecGenerate == InitGenerate /\ [][BuildStart]_vars

-----------------------------------------------------------------------------
(* The provider: replacePlaceholders, useTypedMessage, useTypedMessageDynamic *)

\* JavaScript values: strings, numbers, booleans, and Date objects given by
\* what toLocaleDateString() returns for them
StringValue(text) == [kind |-> "string", text |-> text, n |-> 0]

NumberValue(n) == [kind |-> "number", text |-> <<>>, n |-> n]

BooleanValue(b) == [kind |-> "boolean", text |-> <<>>, n |-> IF b THEN 1 ELSE 0]

DateValue(localeDateString) == [kind |-> "date", text |-> localeDateString, n |-> 0]

\* String(value)
String(value) ==
    CASE value.kind = "string" -> value.text
      [] value.kind = "number" -> numberToString(value.n)
      [] value.kind = "boolean" ->
            IF value.n = 1 THEN <<"t", "r", "u", "e">>
                           ELSE <<"f", "a", "l", "s", "e">>
      [] OTHER -> <<"u", "n", "d", "e", "f", "i", "n", "e", "d">>

\* !value is false
isTruthyValue(value) ==
    CASE value.kind = "undefined" -> FALSE
      [] value.kind = "string" -> value.text # <<>>
      [] value.kind = "number" -> value.n # 0
      [] value.kind = "boolean" -> value.n = 1
      [] OTHER -> TRUE

\* placeholderRegex /\{(\w+)(?::\w+)?\}/ tried at position i
placeholderRegex(template, i) ==
    IF template[i] # "{" THEN [matched |-> FALSE, paramName |-> <<>>, end |-> 0]
    ELSE LET n == wordEnd(template, i + 1)
             t == IF n <= Len(template) /\ template[n] = ":"
                     THEN wordEnd(template, n + 1) ELSE n
         IN  IF /\ n > i + 1
                /\ t <= Len(template)
                /\ template[t] = "}"
                /\ (t = n \/ t > n + 1)
                THEN [matched |-> TRUE, paramName |-> SubSeq(template, i + 1, n - 1),
                      end |-> t]
                ELSE [matched |-> FALSE, paramName |-> <<>>, end |-> 0]

\* the replacer callback: the text that replaces the match, or thrown when
\* params.hasOwnProperty is not the inherited function
replacer(params, match, paramName) ==
    IF getProperty(params, HASOWNPROPERTY).kind # "function"
        THEN [thrown |-> TRUE, text |-> <<>>]
    ELSE IF mapHas(params, paramName)
        THEN LET value == mapGet(params, paramName)
             IN  [thrown |-> FALSE,
                  text |-> IF value.kind = "date" THEN value.text ELSE String(value)]
    ELSE [thrown |-> FALSE, text |-> match]

\* template.replace(placeholderRegex, replacer) from position i on
RECURSIVE replaceFrom(_, _, _)
replaceFrom(template, params, i) ==
    IF i > Len(template) THEN [thrown |-> FALSE, text |-> <<>>]
    ELSE LET match == placeholderRegex(template, i)
         IN  IF ~match.matched
                THEN LET rest == replaceFrom(template, params, i + 1)
                     IN  [rest EXCEPT !.text = <<template[i]>> \o @]
                ELSE LET replaced == replacer(params, SubSeq(template, i, match.end),
                                              match.paramName)
                         rest == replaceFrom(template, params, match.end + 1)
                     IN  IF replaced.thrown THEN replaced
                         ELSE [rest EXCEPT !.text = replaced.text \o @]

TypeError == [kind |-> "TypeError", text |-> <<>>]

\* what a call returns: a string, undefined, a function object, or a
\* TypeError thrown
ReturnValue(value) ==
    IF value.kind = "string" THEN [kind |-> "string", text |-> value.text]
    ELSE [kind |-> value.kind, text |-> <<>>]

\* replacePlaceholders(template, params); a template that is no string has
\* no replace method
replacePlaceholders(template, params) ==
    IF template.kind # "string" THEN TypeError
    ELSE LET replaced == replaceFrom(template.text, params, 1)
         IN  IF replaced.thrown THEN TypeError
             ELSE [kind |-> "string", text |-> replaced.text]

\* the function useTypedMessage returns
getMessage(messages, messageItem, hasParams, params) ==
    LET looked == getProperty(messages, messageItem.key)
        localizedMessage == IF isTruthyValue(looked) THEN looked
                            ELSE StringValue(messageItem.fallback)
    IN  IF hasParams THEN replacePlaceholders(localizedMessage, params)
        ELSE ReturnValue(localizedMessage)

\* the loop of getSanitizedDictionary over Object.keys(dictionary)
RECURSIVE sanitizeKeys(_, _, _)
sanitizeKeys(dictionaryKeys, used, sanitizedMap) ==
    IF dictionaryKeys = <<>> THEN sanitizedMap
    ELSE LET dictionaryKey == Head(dictionaryKeys)
             unique == ensureUniqueIdentifier(sanitizeIdentifier(dictionaryKey), used)
         IN  sanitizeKeys(Tail(dictionaryKeys), unique.usedIdentifiers,
                 IF mapHas(sanitizedMap, unique.candidate) THEN sanitizedMap
                 ELSE mapSet(sanitizedMap, unique.candidate, dictionaryKey))

\* sanitized identifier -> dictionary key, in the order of the dictionary
getSanitizedDictionary(messages) ==
    sanitizeKeys([i \in DOMAIN messages |-> messages[i].key], {}, <<>>)

\* text.startsWith(prefix)
startsWith(text, prefix) ==
    Len(text) >= Len(prefix) /\ SubSeq(text, 1, Len(prefix)) = prefix

\* the dictionary key the sanitized form of the key resolves to: the entry
\* of the sanitized map for it, else the first entry whose identifier starts
\* with the sanitized form and "_"; <<>> stands for undefined
resolveDictionaryKey(sanitizedMap, sanitizedBase) ==
    IF mapHas(sanitizedMap, sanitizedBase) /\ mapGet(sanitizedMap, sanitizedBase) # <<>>
        THEN mapGet(sanitizedMap, sanitizedBase)
    ELSE LET candidates == SelectSeq(sanitizedMap,
                               LAMBDA e : startsWith(e.key, sanitizedBase \o <<"_">>))
         IN  IF candidates = <<>> THEN <<>> ELSE candidates[1].value

Returned(kind) == [kind |-> kind, text |-> <<>>]

\* tryGetMessageDynamic of useTypedMessageDynamic
tryGetMessageDynamic(messages, key, hasParams, params) ==
    LET direct == getProperty(messages, key)
        resolvedDictionaryKey ==
            resolveDictionaryKey(getSanitizedDictionary(messages), sanitizeIdentifier(key))
        localizedMessage ==
            IF isTruthyValue(direct) THEN direct
            ELSE IF resolvedDictionaryKey # <<>>
                THEN getProperty(messages, resolvedDictionaryKey)
            ELSE direct
    IN  IF ~isTruthyValue(localizedMessage) THEN Returned("undefined")
        ELSE IF hasParams THEN replacePlaceholders(localizedMessage, params)
        ELSE ReturnValue(localizedMessage)

MESSAGE_NOT_FOUND_PREFIX ==
    <<"M", "E", "S", "S", "A", "G", "E", "_", "N", "O", "T", "_",
      "F", "O", "U", "N", "D", ":", " ">>

\* getMessageDynamic of useTypedMessageDynamic
getMessageDynamic(messages, key, hasParams, params) ==
    LET result == tryGetMessageDynamic(messages, key, hasParams, params)
    IN  IF result.kind = "undefined"
           THEN [kind |-> "string", text |-> MESSAGE_NOT_FOUND_PREFIX \o key]
           ELSE result

-----------------------------------------------------------------------------
(* The provider, over small dictionaries, templates and parameter objects *)

KeyAB == <<"a", "-", "b">>

KeyA_B == <<"a", "_", "b">>

NameX == <<"x">>

NameY == <<"y">>

\* texts without a token, with tokens in both orders, with a type tag, with
\* a name no object has, with an unfinished token, with an inherited name
Templates ==
    { <<"h", "i">>,
      Placeholder(NameX, <<>>),
      Placeholder(NameX, <<>>) \o <<"-">> \o Placeholder(NameY, TypeNumber),
      Placeholder(NameY, <<>>) \o Placeholder(NameX, <<>>),
      Placeholder(<<"z">>, <<>>),
      <<"{", "x">>,
      Placeholder(NameX, <<>>) \o Placeholder(HASOWNPROPERTY, <<>>) }

\* what a dictionary may hold for a key: an empty text or a template
DictionaryTexts ==
    { <<>>, <<"h", "i">>,
      Placeholder(NameX, <<>>) \o <<"-">> \o Placeholder(NameY, TypeNumber) }

DictionaryKeys == {KeyAB, KeyA_B, NameX}

DictionaryEntries ==
    {[key |-> k, value |-> StringValue(t)] : k \in DictionaryKeys, t \in DictionaryTexts}

\* the messages prop: an object of no, one or two entries
MessageDictionaries ==
    {<<>>}
    \cup {<<e>> : e \in DictionaryEntries}
    \cup {p \in DictionaryEntries \X DictionaryEntries : p[1].key # p[2].key}

Properties ==
    { [key |-> NameX, value |-> StringValue(<<"A">>)],
      [key |-> NameX, value |-> StringValue(Placeholder(NameY, <<>>))],
      [key |-> NameX, value |-> DateValue(<<"1", "/", "2", "/", "2", "0", "2", "4">>)],
      [key |-> NameY, value |-> NumberValue(7)],
      [key |-> NameY, value |-> BooleanValue(FALSE)],
      [key |-> HASOWNPROPERTY, value |-> StringValue(<<"h">>)] }

\* parameter objects of no, one or two properties, in either order
ParamObjects ==
    {<<>>}
    \cup {<<p>> : p \in Properties}
    \cup {p \in Properties \X Properties : p[1].key # p[2].key}

\* the keys asked for: dictionary keys, keys whose identifier is or begins
\* that of a dictionary key, an unrelated key, an inherited name
LookupKeys ==
    DictionaryKeys \cup {<<"a">>, <<"a", ".", "b">>, <<"q">>, CONSTRUCTOR}

DynamicParams == {<<>>, <<[key |-> NameX, value |-> StringValue(<<"A">>)]>>}

InitRender ==
    /\ ControllerIdle
    /\ PipelineIdle
    /\ providerMessages \in MessageDictionaries
    /\ call = NoCall
    /\ returned = NothingReturned

\* a component calls the function of useTypedMessage
GetMessage ==
    /\ call = NoCall
    /\ \E key \in {NameX, CONSTRUCTOR}, fallback \in Templates,
          hasParams \in BOOLEAN, params \in ParamObjects :
           /\ hasParams \/ params = <<>>
           /\ call' = [op |-> "getMessage", key |-> key, fallback |-> fallback,
                       hasParams |-> hasParams, params |-> params]
           /\ returned' = getMessage(providerMessages,
                                     [key |-> key, fallback |-> fallback],
                                     hasParams, params)
    /\ UNCHANGED <<providerMessages, controllerVars, pipelineVars>>

\* a component calls tryGetMessageDynamic
TryGetMessageDynamic ==
    /\ call = NoCall
    /\ \E key \in LookupKeys, hasParams \in BOOLEAN, params \in DynamicParams :
           /\ hasParams \/ params = <<>>
           /\ call' = [op |-> "tryGetMessageDynamic", key |-> key, fallback |-> <<>>,
                       hasParams |-> hasParams, params |-> params]
           /\ returned' = tryGetMessageDynamic(providerMessages, key, hasParams, params)
    /\ UNCHANGED <<providerMessages, controllerVars, pipelineVars>>

\* a component calls getMessageDynamic
GetMessageDynamic ==
    /\ call = NoCall
    /\ \E key \in LookupKeys, hasParams \in BOOLEAN, params \in DynamicParams :
           /\ hasParams \/ params = <<>>
           /\ call' = [op |-> "getMessageDynamic", key |-> key, fallback |-> <<>>,
                       hasParams |-> hasParams, params |-> params]
           /\ returned' = getMessageDynamic(providerMessages, key, hasParams, params)
    /\ UNCHANGED <<providerMessages, controllerVars, pipelineVars>>

SpecRender ==
    InitRender /\ [][GetMessage \/ TryGetMessageDynamic \/ GetMessageDynamic]_vars

-----------------------------------------------------------------------------
(* The controller under fair scheduling *)

\* the promise of some loader invocation settles
LoaderSettles ==
    \E i \in 1..Len(inflight) :
        (\E d \in Dictionaries : LoaderResolve(i, d)) \/ LoaderReject(i)

\* React runs the effects of a commit, the mutex grants the lock to a
\* waiter once it is free, a rejected promise reaches its catch block, and
\* every loader invocation settles; the application need not call anything
Fairness ==
    /\ WF_vars(Mount)
    /\ WF_vars(AutoLoadEffect)
    /\ WF_vars(Acquire)
    /\ WF_vars(Catch)
    /\ WF_vars(LoaderSettles)

SpecFair == Init /\ [][Next]_vars /\ Fairness

-----------------------------------------------------------------------------
(* C8: the initial locale is the trimmed form of the first candidate that is
   not blank after trimming, the candidates being, in order: the persisted
   value (only when a storage key is set and the value can be read), the
   initialLocale option, the first entry of the locales option, the
   fallbackLocale option, the literal 'fallback'. *)

InitialCandidates ==
    << IF opts.storageKey /\ env.canUseStorage /\ ~env.getItemThrows
          THEN storage ELSE None,
       opts.initialLocale,
       IF opts.locales # None /\ Len(opts.locales) > 0
          THEN opts.locales[1] ELSE None,
       opts.fallbackLocale,
       FALLBACK >>

NonBlank(s) == s # None /\ Trim(s) # <<>>

FirstNonBlank(c) ==
    LET i == CHOOSE k \in 1..Len(c) :
                 NonBlank(c[k]) /\ \A j \in 1..(k - 1) : ~NonBlank(c[j])
    IN  Trim(c[i])

InitialLocalePriority ==
    phase = "rendered" => localeState = FirstNonBlank(InitialCandidates)

\* a blank stored value and a blank initialLocale are skipped and the padded
\* first entry of locales wins, trimmed
InitialLocaleWitness ==
    /\ phase = "rendered"
    /\ opts.storageKey /\ env.canUseStorage /\ ~env.getItemThrows
    /\ storage = <<SP>>
    /\ opts.initialLocale = <<SP, SP>>
    /\ opts.locales = << <<SP>> \o FR, EN >>
    /\ localeState = FR

-----------------------------------------------------------------------------
(* Properties of the controller *)

InFlightFor(l) == \E i \in 1..Len(inflight) : inflight[i].locale = l

(* C1: once a loader invocation for a locale has resolved, and while one is
   in flight, the loader is not invoked for that locale again, whichever of
   setLocale, preload and the automatic load ask for it. *)
LoaderInvokedOncePerLocale ==
    [][\A l \in Locales :
          (l \in loaded \/ InFlightFor(l)) => loaderCalls'[l] = loaderCalls[l]]_vars

\* a second setLocale('ja') is served from the cache after one invocation
LoaderInvokedOnceWitness ==
    /\ calls = 2
    /\ last.op \in {"hit", "setLocale"}
    /\ last.settled = "resolved"
    /\ last.task = Task("setLocale", JA, TRUE)
    /\ JA \in loaded
    /\ loaderCalls[JA] = 1
    /\ localeState = JA

(* C3: at most one loader invocation is in flight, and while one load
   operation is between its cache check and its cache write no other load
   operation checks the cache, calls the loader or writes the cache. *)
LoadsAreSerialized ==
    [][/\ Len(inflight') <= 1
       /\ (inflight' # <<>> => locked')
       /\ (inflight # <<>> =>
             /\ last'.op \notin {"hit", "load"}
             /\ (cacheRef' # cacheRef => last'.task = inflight[1]))]_vars

\* a load is in flight while a request for the same locale and one for
\* another locale wait for the mutex
LoadsAreSerializedWitness ==
    /\ Len(inflight) = 1
    /\ \E i \in 1..Len(waiters) : waiters[i].locale = inflight[1].locale
    /\ \E i \in 1..Len(waiters) : waiters[i].locale # inflight[1].locale

(* C9: the cache is write-once per locale: an entry, once set, is never
   overwritten or removed. *)
CacheWriteOnce ==
    [][\A l \in Locales : cacheRef[l] # None => cacheRef'[l] = cacheRef[l]]_vars

\* both locales are cached and a later request for one of them has run
CacheWriteOnceWitness ==
    /\ \A l \in Locales : cacheRef[l] # None
    /\ last.op = "hit"
    /\ loaderCalls = [l \in Locales |-> 1]

(* C2 as stated: when the loader rejects during setLocale(L), locale and
   dictionary stay as they were, status becomes 'error', error holds the
   rejection value and the promise of setLocale rejects with that value. *)
FailedSetLocaleSetsError ==
    [][(last'.task.kind = "setLocale" /\ last'.op \in {"failed", "catch"}) =>
          /\ localeState' = localeState
          /\ dictionary' = dictionary
          /\ (last'.op = "catch" =>
                /\ last'.settled = "rejected"
                /\ last'.value = LoadError(last'.task.locale)
                /\ status' = "error"
                /\ error' = LoadError(last'.task.locale))]_vars

(* C2 amended: the same, with status and error set only when the hook is
   still mounted when the failure is handled; after teardown they are left
   as they were. *)
FailedSetLocaleKeepsState ==
    [][(last'.task.kind = "setLocale" /\ last'.op \in {"failed", "catch"}) =>
          /\ localeState' = localeState
          /\ dictionary' = dictionary
          /\ (last'.op = "catch" =>
                /\ last'.settled = "rejected"
                /\ last'.value = LoadError(last'.task.locale)
                /\ (phase = "mounted" =>
                      /\ status' = "error"
                      /\ error' = LoadError(last'.task.locale))
                /\ (phase = "unmounted" =>
                      /\ status' = status
                      /\ error' = error))]_vars

\* setLocale('ja') has failed on a mounted hook showing the English data
FailedSetLocaleWitness ==
    /\ phase = "mounted"
    /\ last.op = "catch"
    /\ last.task = Task("setLocale", JA, TRUE)
    /\ last.settled = "rejected"
    /\ localeState = EN
    /\ cacheRef[EN] # None
    /\ dictionary = cacheRef[EN]
    /\ status = "error"
    /\ error = LoadError(JA)

(* C4: no step of preload changes locale, status, dictionary or error,
   whether its loads succeed or fail; it enqueues one non-applying load per
   distinct trimmed non-blank name, each of which calls the loader once if
   its locale is not cached when it runs and not at all otherwise, and the
   cache only gains entries. *)
PreloadOnlyFillsCache ==
    [][(last'.op = "preload" \/ last'.task.kind = "preload") =>
          /\ UNCHANGED <<localeState, status, dictionary, error>>
          /\ \A l \in Locales : cacheRef[l] # None => cacheRef'[l] = cacheRef[l]
          /\ (last'.op = "preload" =>
                LET new == SubSeq(waiters', Len(waiters) + 1, Len(waiters'))
                IN  /\ loaderCalls' = loaderCalls
                    /\ \A i \in 1..Len(new) :
                          /\ new[i].kind = "preload"
                          /\ ~new[i].apply
                          /\ new[i].locale # <<>>
                          /\ new[i].locale = Trim(new[i].locale)
                          /\ \A j \in 1..Len(new) :
                                new[j].locale = new[i].locale => j = i)
          /\ (last'.task.kind = "preload" =>
                LET l == last'.task.locale
                IN  loaderCalls' =
                       IF last'.op = "load" /\ cacheRef[l] = None
                          THEN [loaderCalls EXCEPT ![l] = @ + 1]
                          ELSE loaderCalls)]_vars

\* a preloaded locale other than the active one has been cached while the
\* hook shows the active locale
PreloadWitness ==
    /\ last.op = "loaded"
    /\ last.task = Task("preload", JA, FALSE)
    /\ cacheRef[JA] # None
    /\ localeState = EN
    /\ status = "ready"
    /\ dictionary = cacheRef[EN]

(* C5: once the hook is unmounted no step changes locale, status, dictionary
   or error, and none writes the stored locale. *)
NoUpdateAfterTeardown ==
    [][phase = "unmounted" =>
          UNCHANGED <<localeState, status, dictionary, error, storage>>]_vars

\* a load that was in flight at teardown has completed afterwards
NoUpdateAfterTeardownWitness ==
    /\ phase = "unmounted"
    /\ last.op = "loaded"
    /\ last.task.apply
    /\ opts.storageKey /\ env.canUseStorage
    /\ status = "loading"
    /\ localeState # last.task.locale

(* C6 as stated: a setLocale(L) call moves status from 'ready' or 'error'
   to 'loading' only if L is not cached; if L is cached the call never sets
   'loading', never calls the loader, and the step that serves it from the
   cache makes status 'ready'. *)
CachedSetLocaleBecomesReady ==
    [][(last'.task.kind = "setLocale" /\ last'.task.locale # <<>>) =>
          LET l == last'.task.locale
          IN  /\ (status \in {"ready", "error"} /\ status' = "loading"
                    => cacheRef[l] = None)
              /\ (status \in {"ready", "error"} /\ cacheRef[l] # None
                    /\ last'.op \in {"setLocale", "hit"} =>
                    /\ loaderCalls' = loaderCalls
                    /\ status' \in {status, "ready"}
                    /\ (last'.settled = "resolved" => status' = "ready"))]_vars

(* C6 amended: the same, where the step that serves a cached L makes status
   'ready' on a mounted hook and leaves it unchanged after teardown. *)
SetLocaleLoadingOnlyOnMiss ==
    [][(last'.task.kind = "setLocale" /\ last'.task.locale # <<>>) =>
          LET l == last'.task.locale
          IN  /\ (status \in {"ready", "error"} /\ status' = "loading"
                    => cacheRef[l] = None)
              /\ (status \in {"ready", "error"} /\ cacheRef[l] # None
                    /\ last'.op \in {"setLocale", "hit"} =>
                    /\ loaderCalls' = loaderCalls
                    /\ status' \in {status, "ready"}
                    /\ (last'.settled = "resolved" =>
                          status' = IF phase = "mounted" THEN "ready"
                                                         ELSE status))]_vars

\* after a failed switch (status 'error') a setLocale for a cached locale
\* other than the current one has been served from the cache
SetLocaleCachedWitness ==
    /\ phase = "mounted"
    /\ last.op = "hit"
    /\ last.task = Task("setLocale", JA, TRUE)
    /\ status = "ready"
    /\ localeState = JA
    /\ loaderCalls[JA] = 1
    /\ calls = 2

(* C7 as stated: when a load for setLocale or the initial load succeeds with
   dictionary D on a mounted hook, that step sets cache[L] = D,
   dictionary = D, locale = L, status = 'ready', clears error, and writes L
   to storage if and only if storageKey is set. *)
LoadSuccessPersistsIffKey ==
    [][(last'.op = "loaded" /\ last'.task.apply /\ phase = "mounted") =>
          LET l == last'.task.locale
              d == last'.value
          IN  /\ d \in Dictionaries
              /\ cacheRef' = [cacheRef EXCEPT ![l] = d]
              /\ dictionary' = d
              /\ localeState' = l
              /\ status' = "ready"
              /\ error' = None
              /\ (opts.storageKey => storage' = l)
              /\ (~opts.storageKey => storage' = storage)]_vars

(* C7 amended: the same, where L is written to storage if storageKey is set,
   storage is usable and the write does not throw, and storage is left as it
   was otherwise. *)
LoadSuccessApplies ==
    [][(last'.op = "loaded" /\ last'.task.apply /\ phase = "mounted") =>
          LET l == last'.task.locale
              d == last'.value
          IN  /\ d \in Dictionaries
              /\ cacheRef' = [cacheRef EXCEPT ![l] = d]
              /\ dictionary' = d
              /\ localeState' = l
              /\ status' = "ready"
              /\ error' = None
              /\ storage' = IF opts.storageKey /\ env.canUseStorage
                                 /\ ~last'.setItemThrew
                               THEN l ELSE storage]_vars

\* setLocale('ja') has loaded on a mounted hook with a storage key and the
\* locale has been persisted
LoadSuccessWitness ==
    /\ phase = "mounted"
    /\ last.op = "loaded"
    /\ last.task = Task("setLocale", JA, TRUE)
    /\ opts.storageKey
    /\ storage = JA
    /\ localeState = JA
    /\ dictionary = cacheRef[JA]
    /\ status = "ready"

(* C10: a localStorage read that throws at construction leaves status 'idle'
   and error empty; a localStorage write that throws while a loaded locale is
   applied leaves status 'ready' and error empty, lets the request resolve,
   and the locale and dictionary are applied all the same. *)
PersistenceFailuresSwallowed ==
    /\ [](phase = "rendered" /\ env.getItemThrows =>
             status = "idle" /\ error = None)
    /\ [][last'.setItemThrew =>
             /\ status' = "ready"
             /\ error' = None
             /\ last'.settled = "resolved"
             /\ rejected' = rejected
             /\ localeState' = last'.task.locale
             /\ dictionary' = cacheRef'[last'.task.locale]]_vars

\* the write of 'ja' threw while setLocale('ja') was applied
PersistenceFailureWitness ==
    /\ last.setItemThrew
    /\ last.op = "loaded"
    /\ last.task = Task("setLocale", JA, TRUE)
    /\ last.settled = "resolved"
    /\ status = "ready"
    /\ localeState = JA
    /\ storage # JA


(* C11: the controller's locale field always names a locale whose dictionary
   has been successfully loaded (it is the last successfully loaded locale),
   also before the first load completes and after a failed initial load. *)
LocaleIsLastLoaded ==
    /\ localeState \in loaded
    /\ cacheGet(cacheRef, localeState) # None

-----------------------------------------------------------------------------
(* Scanner claims *)

\* the basename of a locale file is in the priority list
Listed(file) ==
    \E i \in DOMAIN fallbackPriorityOrder :
        \E ext \in {JSON, JSONC, JSON5} : file = fallbackPriorityOrder[i] \o ext

\* the least position of the file's basename in the priority list
ListIndex(file) ==
    CHOOSE i \in DOMAIN fallbackPriorityOrder :
        /\ \E ext \in {JSON, JSONC, JSON5} : file = fallbackPriorityOrder[i] \o ext
        /\ \A j \in 1..(i - 1) : fallbackPriorityOrder[j] # fallbackPriorityOrder[i]

(* C13: the scanner's output holds the files whose basename is in the
   priority list first, by ascending index in that list, and every file
   whose basename is not in the list after all listed ones, in alphabetical
   order of the file names; an unlisted file is thus processed after, and
   takes precedence over, every listed one. *)
ListedFirstThenAlphabetical ==
    pc = "scanned" =>
        \A i, j \in DOMAIN localeFiles :
            i < j =>
                LET a == localeFiles[i]
                    b == localeFiles[j]
                IN  /\ (Listed(a) /\ Listed(b)) => ListIndex(a) < ListIndex(b)
                    /\ Listed(b) => Listed(a)
                    /\ (~Listed(a) /\ ~Listed(b)) => localeCompare(a, b) < 0

\* priority ['fallback', 'en'] with en, en-us, fallback and ja on disk:
\* fallback and en come first, in list order, then en-us and ja
ListedFirstWitness ==
    /\ pc = "scanned"
    /\ fallbackPriorityOrder = <<FALLBACK, EN>>
    /\ localeFiles = <<FALLBACK \o JSON, EN \o JSON, ENUS \o JSON, JA \o JSON>>

(* C14 as stated: the entries absent from the priority list are ordered
   alphabetically by basename and placed before the ones in the priority
   list, so that the listed locales are the last ones of the output. *)
UnlistedBeforeListed ==
    pc = "scanned" =>
        \A i, j \in DOMAIN localeFiles :
            i < j =>
                LET a == localeFiles[i]
                    b == localeFiles[j]
                IN  /\ Listed(a) => Listed(b)
                    /\ (~Listed(a) /\ ~Listed(b)) =>
                           localeCompare(basename(a, extname(a)),
                                         basename(b, extname(b))) < 0

\* the listed, resp. unlisted, files of the output, in output order
ListedPart == SelectSeq(localeFiles, Listed)

UnlistedPart == SelectSeq(localeFiles, LAMBDA f : ~Listed(f))

(* C14 as amended: the entries absent from the priority list are ordered
   alphabetically by file name and placed after the ones in the priority
   list: the output is the listed files followed by the unlisted ones, so
   that whenever an unlisted locale exists, the last file of the output, the
   one of highest precedence, is an unlisted one. *)
UnlistedAfterListed ==
    pc = "scanned" =>
        /\ localeFiles = ListedPart \o UnlistedPart
        /\ \A i \in 1..(Len(UnlistedPart) - 1) :
               localeCompare(UnlistedPart[i], UnlistedPart[i + 1]) < 0
        /\ UnlistedPart # <<>> => ~Listed(localeFiles[Len(localeFiles)])

\* priority ['en']: en.json5 is followed by the unlisted en-us, fallback, ja,
\* and en-us.json sorts before fallback.json
UnlistedAfterListedWitness ==
    /\ pc = "scanned"
    /\ fallbackPriorityOrder = <<EN>>
    /\ localeFiles = <<EN \o JSON5, ENUS \o JSON, FALLBACK \o JSON, JA \o JSON5>>

\* the regular files of the directory that hold a format variant of a locale
VariantsOnDisk(bn) ==
    {ext \in {JSON, JSONC, JSON5} :
        \E i \in DOMAIN localeDir.entries :
            localeDir.entries[i].name = bn \o ext /\ localeDir.entries[i].isFile}

\* .json5 over .jsonc over .json
HighestRanked(exts) ==
    IF JSON5 \in exts THEN JSON5 ELSE IF JSONC \in exts THEN JSONC ELSE JSON

(* C19: for every basename with a format variant on disk the scanner's
   output holds exactly one file, the variant of the highest-ranked
   extension present (.json5 over .jsonc over .json), whatever variants
   exist and in whatever order the directory lists them; it holds no file
   for any other name. *)
OneFilePerBasename ==
    pc = "scanned" =>
        /\ \A bn \in {EN, ENUS, FALLBACK, JA} :
               LET kept == {i \in DOMAIN localeFiles :
                               \E ext \in {JSON, JSONC, JSON5} :
                                   localeFiles[i] = bn \o ext}
               IN  IF VariantsOnDisk(bn) = {} THEN kept = {}
                   ELSE /\ Cardinality(kept) = 1
                        /\ \A i \in kept :
                               localeFiles[i] = bn \o HighestRanked(VariantsOnDisk(bn))
        /\ \A i \in DOMAIN localeFiles :
               \E bn \in {EN, ENUS, FALLBACK, JA}, ext \in {JSON, JSONC, JSON5} :
                   localeFiles[i] = bn \o ext

\* en.json5 is listed between en.json and en.jsonc, ja.jsonc is a directory:
\* en.json5 and ja.json are kept
OneFilePerBasenameWitness ==
    /\ pc = "scanned"
    /\ \E i \in DOMAIN localeDir.entries :
           /\ i + 2 \in DOMAIN localeDir.entries
           /\ localeDir.entries[i].name = EN \o JSON
           /\ localeDir.entries[i + 1].name = EN \o JSON5
           /\ localeDir.entries[i + 2].name = EN \o JSONC
    /\ \E i \in DOMAIN localeDir.entries : localeDir.entries[i].name = JA \o JSONC
    /\ \E i \in DOMAIN localeDir.entries : localeDir.entries[i].name = JA \o JSON
    /\ localeFiles = <<EN \o JSON5, JA \o JSON>>

-----------------------------------------------------------------------------
(* Sanitizer claims *)

(* C20: within one generation pass the identifiers given to a sequence of
   distinct message keys are pairwise distinct, also when several keys
   sanitize to the same base or a later key equals a suffixed identifier
   already assigned; and a second pass over the same keys, starting from a
   new used-set, assigns every key the identifier the first pass gave it. *)
IdentifiersDistinctAndReproducible ==
    /\ \A i, j \in DOMAIN sanitizedKeys :
           i # j => sanitizedKeys[i] # sanitizedKeys[j]
    /\ pc = "regenerate" =>
           \A i \in DOMAIN sanitizedKeys : sanitizedKeys[i] = previousPass[i]

\* 'A-B', 'A.B', 'A_B_1' became A_B, A_B_1, A_B_1_1 in both passes
IdentifiersDistinctWitness ==
    /\ pc = "regenerate"
    /\ originalKeys = << <<"A", "-", "B">>, <<"A", ".", "B">>,
                         <<"A", "_", "B", "_", "1">> >>
    /\ sanitizedKeys = << <<"A", "_", "B">>, <<"A", "_", "B", "_", "1">>,
                          <<"A", "_", "B", "_", "1", "_", "1">> >>
    /\ previousPass = sanitizedKeys

-----------------------------------------------------------------------------
(* Pipeline claims *)

\* the file is in the directory
OnDisk(file) == \E i \in DOMAIN localeDir.entries : localeDir.entries[i].name = file

\* what the file holds
ContentOf(file) ==
    localeDir.entries[CHOOSE i \in DOMAIN localeDir.entries :
                          localeDir.entries[i].name = file].content

\* the file parses and gives the key a string value
Defines(file, key) ==
    /\ OnDisk(file)
    /\ ContentOf(file).parsed
    /\ \E i \in DOMAIN ContentOf(file).entries :
           ContentOf(file).entries[i].key = key /\ ContentOf(file).entries[i].isString

TemplateOf(file, key) ==
    LET entries == ContentOf(file).entries
    IN  entries[CHOOSE i \in DOMAIN entries : entries[i].key = key].value

\* the generated file has an item for the key
HasItem(key) ==
    /\ outputFile.written
    /\ \E i \in DOMAIN outputFile.messageItems : outputFile.messageItems[i].key = key

ItemOf(key) ==
    outputFile.messageItems[CHOOSE i \in DOMAIN outputFile.messageItems :
                                outputFile.messageItems[i].key = key]

\* the example: fallback.json and en.json alone, each holding key A alone,
\* with different texts, under priority ['en', 'fallback']
LastFileWinsExample ==
    /\ pc = "built"
    /\ fallbackPriorityOrder = <<EN, FALLBACK>>
    /\ Len(localeDir.entries) = 2
    /\ \A file \in {EN \o JSON, FALLBACK \o JSON} :
           /\ Defines(file, KeyA)
           /\ Len(ContentOf(file).entries) = 1
    /\ TemplateOf(EN \o JSON, KeyA) # TemplateOf(FALLBACK \o JSON, KeyA)

(* C12 as stated: in the example the processing order places fallback
   before en, and the generated fallback text for A is en's value. *)
ExampleEnWins ==
    LastFileWinsExample =>
        /\ localeFiles = <<FALLBACK \o JSON, EN \o JSON>>
        /\ HasItem(KeyA)
        /\ ItemOf(KeyA).fallback = TemplateOf(EN \o JSON, KeyA)

(* C12 as amended: in the example the processing order places en before
   fallback, and the generated fallback text for A is fallback's value. *)
ExampleFallbackWins ==
    LastFileWinsExample =>
        /\ localeFiles = <<EN \o JSON, FALLBACK \o JSON>>
        /\ HasItem(KeyA)
        /\ ItemOf(KeyA).fallback = TemplateOf(FALLBACK \o JSON, KeyA)

\* fallback.json (A: "x"), en.json (A: "y"): "x" is generated
ExampleFallbackWinsWitness ==
    /\ LastFileWinsExample
    /\ TemplateOf(FALLBACK \o JSON, KeyA) = <<"x">>
    /\ TemplateOf(EN \o JSON, KeyA) = <<"y">>
    /\ ItemOf(KeyA).fallback = <<"x">>

\* the positions, in the scanner's output, of the files that define the key
DefiningFiles(key) == {i \in DOMAIN localeFiles : Defines(localeFiles[i], key)}

LastDefiningFile(key) ==
    localeFiles[CHOOSE i \in DefiningFiles(key) : \A j \in DefiningFiles(key) : j <= i]

(* C15: for every message key that some file defines, the generated
   fallback text is the template of the last file, in the scanner's ordered
   file list, that parsed and defines the key with a string value. *)
LastDefiningFileWins ==
    pc = "built" =>
        \A key \in {KeyA, CONSTRUCTOR} :
            DefiningFiles(key) # {} =>
                /\ HasItem(key)
                /\ ItemOf(key).fallback = TemplateOf(LastDefiningFile(key), key)

\* the types the file's template for the key gives to a placeholder name
\* ('string' where the type is omitted)
AssertedTypes(file, key, name) ==
    {p.type : p \in {q \in Range(parsePlaceholders(TemplateOf(file, key))) :
                        q.name = name}}

\* the positions of the files that define the key and use the name
UsingFiles(key, name) ==
    {i \in DefiningFiles(key) : AssertedTypes(localeFiles[i], key, name) # {}}

AllAssertedTypes(key, name) ==
    UNION {AssertedTypes(localeFiles[i], key, name) : i \in DefiningFiles(key)}

\* the conflicts the generated file reports for the name under the key
ReportedConflicts(key, name) ==
    IF HasItem(key)
        THEN {c \in Range(ItemOf(key).conflicts) : c.parameterName = name}
        ELSE {}

(* C16: for every key and every placeholder name under it a conflict is
   reported if and only if the types asserted for the name across the files
   that define the key hold at least two distinct values, an omitted type
   counting as 'string'; a reported conflict lists, for every file that uses
   the name, the type the file asserts. *)
ConflictIffTypesDiffer ==
    pc = "built" =>
        \A key \in {KeyA, CONSTRUCTOR}, name \in {PlaceholderN, CONSTRUCTOR} :
            /\ ReportedConflicts(key, name) # {}
                   <=> Cardinality(AllAssertedTypes(key, name)) >= 2
            /\ \A c \in ReportedConflicts(key, name) :
                   /\ {e.localeFile : e \in Range(c.conflicts)}
                          = {localeFiles[i] : i \in UsingFiles(key, name)}
                   /\ \A e \in Range(c.conflicts) :
                          e.type \in AssertedTypes(e.localeFile, key, name)

\* the types asserted for the name under the key, in processing order: file
\* after file, and within a file placeholder after placeholder
RECURSIVE TypesInOrder(_, _, _)
TypesInOrder(key, name, i) ==
    IF i > Len(localeFiles) THEN <<>>
    ELSE (IF Defines(localeFiles[i], key)
             THEN LET placeholders ==
                          SelectSeq(parsePlaceholders(TemplateOf(localeFiles[i], key)),
                                    LAMBDA p : p.name = name)
                  IN  [k \in DOMAIN placeholders |-> placeholders[k].type]
             ELSE <<>>)
         \o TypesInOrder(key, name, i + 1)

FirstExplicitType(key, name) ==
    LET explicit == SelectSeq(TypesInOrder(key, name, 1), LAMBDA t : t # TypeString)
    IN  IF explicit = <<>> THEN TypeString ELSE explicit[1]

(* C17: the final type of each placeholder of a generated message is the
   first type other than 'string' that is asserted for its name when the
   files are walked in processing order, and 'string' when no file asserts
   another type. *)
FinalTypeIsFirstExplicit ==
    pc = "built" =>
        \A i \in DOMAIN outputFile.messageItems :
            LET item == outputFile.messageItems[i]
            IN  \A k \in DOMAIN item.placeholders :
                    item.placeholders[k].type
                        = FirstExplicitType(item.key, item.placeholders[k].name)

\* the directory without the file
WithoutFile(file) ==
    [localeDir EXCEPT !.entries = SelectSeq(@, LAMBDA entry : entry.name # file)]

(* C18: for every processed locale file that fails to parse, the run is not
   aborted, the file is recorded among the invalid files that the generated
   diagnostic block lists, and the message items generated are exactly those
   generated from the directory without that file. *)
InvalidFileIsSkipped ==
    pc = "built" =>
        \A i \in DOMAIN localeFiles :
            ~ContentOf(localeFiles[i]).parsed =>
                /\ outputFile.written
                /\ localeFiles[i] \in Range(outputFile.invalidFiles)
                /\ outputFile.messageItems
                       = generateMessageFile(WithoutFile(localeFiles[i]),
                                             fallbackPriorityOrder).messageItems

\* the base name of a discovered file
LocaleOf(file) == basename(file, extname(file))

\* the designated ultimate-fallback locale
UltimateFallback == fallbackPriorityOrder[Len(fallbackPriorityOrder)]

\* the position, in the scanner's output, of the file with the base name
ScanPosition(locale) ==
    CHOOSE i \in DOMAIN localeFiles : LocaleOf(localeFiles[i]) = locale

(* C21: the exported locale list holds each discovered base name other than
   the last element of fallbackPriorityOrder exactly once, holds nothing
   else, and keeps the scanner's order. *)
LocalesAreDiscoveredButFallback ==
    (pc = "built" /\ outputFile.written) =>
        LET locales == outputFile.locales
        IN  /\ Range(locales)
                   = {LocaleOf(localeFiles[i]) : i \in DOMAIN localeFiles}
                         \ {UltimateFallback}
            /\ \A i, j \in DOMAIN locales :
                   i < j => ScanPosition(locales[i]) < ScanPosition(locales[j])

\* en.json and fallback.json under ['en', 'fallback'] with a third file:
\* fallback is dropped, the others are exported in scanner order
LocalesWitness ==
    /\ pc = "built"
    /\ outputFile.written
    /\ fallbackPriorityOrder = <<EN, FALLBACK>>
    /\ Len(localeFiles) = 3
    /\ outputFile.locales = <<EN, JA>>

\* the placeholders of the template that the last defining file gives the key
SelectedPlaceholders(key) ==
    parsePlaceholders(TemplateOf(LastDefiningFile(key), key))

\* the names some other defining file uses under the key
NamesElsewhere(key) ==
    UNION {{p.name : p \in Range(parsePlaceholders(TemplateOf(localeFiles[i], key)))} :
              i \in {j \in DefiningFiles(key) : localeFiles[j] # LastDefiningFile(key)}}

(* C30: the placeholders of every generated message have the names, the
   order and the positions of the placeholders of the last defining file's
   template, and the generated parameter type lists exactly those names in
   that order. *)
PlaceholdersFollowSelectedTemplate ==
    pc = "built" =>
        \A i \in DOMAIN outputFile.messageItems :
            LET item == outputFile.messageItems[i]
                selected == SelectedPlaceholders(item.key)
            IN  /\ Len(item.placeholders) = Len(selected)
                /\ Len(item.typeString) = Len(selected)
                /\ \A k \in DOMAIN selected :
                       /\ item.placeholders[k].name = selected[k].name
                       /\ item.placeholders[k].position = selected[k].position
                       /\ item.typeString[k].name = selected[k].name

\* the selected template uses n twice without an explicit last type, an
\* earlier file types n and another earlier file uses a different name: the
\* item keeps n at positions 0 and 1, both typed by the earlier file
PlaceholdersFollowSelectedWitness ==
    /\ pc = "built"
    /\ HasItem(KeyA)
    /\ Len(SelectedPlaceholders(KeyA)) = 2
    /\ CONSTRUCTOR \in NamesElsewhere(KeyA)
    /\ ItemOf(KeyA).placeholders
           = <<[name |-> PlaceholderN, type |-> TypeDate, position |-> 0],
               [name |-> PlaceholderN, type |-> TypeDate, position |-> 1]>>

-----------------------------------------------------------------------------
(* Provider claims *)

\* the text that the call of getMessage renders: the dictionary's text for
\* the key, or the item's fallback when the dictionary has none
RenderedTemplate ==
    IF mapHas(providerMessages, call.key)
       /\ mapGet(providerMessages, call.key).text # <<>>
        THEN mapGet(providerMessages, call.key).text
        ELSE call.fallback

\* a template was rendered with a parameter object
Rendering ==
    /\ call.op = "getMessage"
    /\ call.hasParams
    /\ call.key \notin ObjectPrototype

\* the string form of the object's own property
StringForm(params, name) ==
    LET value == mapGet(params, name)
    IN  IF value.kind = "date" THEN value.text ELSE String(value)

\* the template from position i on, every token whose name is an own
\* property replaced, every other character kept
RECURSIVE ExpectedRendering(_, _, _)
ExpectedRendering(template, params, i) ==
    IF i > Len(template) THEN <<>>
    ELSE LET token == placeholderRegex(template, i)
         IN  IF token.matched /\ mapHas(params, token.paramName)
                THEN StringForm(params, token.paramName)
                     \o ExpectedRendering(template, params, token.end + 1)
                ELSE <<template[i]>> \o ExpectedRendering(template, params, i + 1)

(* C22: rendering a template with a parameter object never throws; it
   returns the template with every token {name} or {name:type} whose name is
   an own property of the object replaced by the string form of the value
   and every other token left in place, and returns the same for the object
   with its properties in the opposite order. *)
RenderingReplacesOwnTokens ==
    Rendering =>
        /\ returned.kind = "string"
        /\ returned.text = ExpectedRendering(RenderedTemplate, call.params, 1)
        /\ returned = replacePlaceholders(StringValue(RenderedTemplate),
                                          reverse(call.params))

\* a dynamic lookup was made for a key the dictionary has no entry for
AbsentKeyLookup(op) ==
    /\ call.op = op
    /\ ~mapHas(providerMessages, call.key)

(* C23: for every key that the provider's dictionary has no entry for,
   tryGetMessageDynamic returns undefined and getMessageDynamic returns
   'MESSAGE_NOT_FOUND: ' followed by the key. *)
AbsentKeyIsNotFound ==
    /\ AbsentKeyLookup("tryGetMessageDynamic") => returned.kind = "undefined"
    /\ AbsentKeyLookup("getMessageDynamic") =>
           returned = [kind |-> "string", text |-> MESSAGE_NOT_FOUND_PREFIX \o call.key]

-----------------------------------------------------------------------------
(* Claims on concurrent requests *)

\* nothing is queued, in flight or about to run
Quiescent ==
    /\ waiters = <<>>
    /\ inflight = <<>>
    /\ rejected = <<>>
    /\ ~locked
    /\ phase = "mounted" => effectLocale = localeState

\* no loader invocation was rejected: a locale is loaded once and served
\* from the cache afterwards
AllLoadsSucceeded ==
    \A l \in Locales : loaderCalls[l] = IF l \in loaded THEN 1 ELSE 0

\* the step just taken is the n-th call, setLocale(l)
SetLocaleCall(n, l) ==
    /\ calls = n
    /\ last.op = "setLocale"
    /\ last.task.locale = l

(* C24: when setLocale(a) and then setLocale(b) are called for different
   locales and no load fails, then in every later state of the mounted
   controller in which nothing is queued, in flight or about to run, the
   active locale is b and the dictionary is b's. *)
LastSetLocaleWins ==
    \A a, b \in Locales :
        a # b =>
            [](SetLocaleCall(1, a) =>
                [](SetLocaleCall(2, b) =>
                    []((Quiescent /\ phase = "mounted" /\ AllLoadsSucceeded) =>
                           /\ localeState = b
                           /\ dictionary = cacheGet(cacheRef, b))))

(* C25: the status and error update of a failed applying load never
   overwrites the success of an operation that ran after it: when the catch
   block of a failed applying load runs on a mounted controller, status is
   not 'ready'. *)
FailureNeverOverwritesSuccess ==
    [][(last'.op = "catch" /\ last'.task.apply /\ phase = "mounted") =>
           status # "ready"]_vars

\* a loader invocation started by an applying request is in flight
ApplyingLoadInFlight == \E i \in DOMAIN inflight : inflight[i].apply

(* C27: whenever a loader invocation started by an applying request is in
   flight on a mounted controller, status is 'loading'. *)
ApplyingLoadShowsLoading ==
    (phase = "mounted" /\ ApplyingLoadInFlight) => status = "loading"

(* C26: in every reachable state the dictionary is the initial empty
   dictionary or the cached dictionary of the active locale, and it is the
   cached dictionary of the active locale whenever status is 'ready'. *)
DictionaryIsThatOfLocale ==
    /\ \/ dictionary = EmptyDictionary
       \/ dictionary = cacheGet(cacheRef, localeState)
    /\ status = "ready" => dictionary = cacheGet(cacheRef, localeState)

\* both locales are cached, the controller has switched from one to the
\* other and shows the dictionary of the one it switched to
DictionaryIsThatOfLocaleWitness ==
    /\ status = "ready"
    /\ localeState # resolveInitialLocale(opts, env, storage)
    /\ \A l \in Locales : cacheGet(cacheRef, l) # None
    /\ dictionary = cacheGet(cacheRef, localeState)
    /\ last.op = "hit"


\* a setLocale or preload call whose promise has not settled yet: its load
\* waits for the mutex, awaits the loader, or has failed and not reached
\* the catch block
CallPending ==
    \/ \E i \in 1..Len(waiters) : waiters[i].kind \in {"setLocale", "preload"}
    \/ \E i \in 1..Len(inflight) : inflight[i].kind \in {"setLocale", "preload"}
    \/ \E i \in 1..Len(rejected) :
          rejected[i].task.kind \in {"setLocale", "preload"}

(* C28: the step in which a loader's promise resolves or rejects leaves the
   mutex released; with every loader settling, a held mutex is eventually
   released and every pending setLocale or preload call eventually settles,
   also when it was queued behind a load that failed. *)
MutexIsReleased ==
    /\ [][last'.op \in {"loaded", "failed"} => ~locked']_vars
    /\ locked ~> ~locked
    /\ CallPending ~> ~CallPending

\* a queued call's load starts while the failure of the load before it has
\* not even reached its catch block
MutexIsReleasedWitness ==
    /\ last.op = "load"
    /\ last.task.kind \in {"setLocale", "preload"}
    /\ locked
    /\ \E i \in 1..Len(rejected) :
          rejected[i].error = LoadError(rejected[i].task.locale)

(* C29: once the finitely many requests have been made and their loads have
   settled, the controller comes to rest: from some point on nothing is
   queued, awaited or pending and the effect has seen the active locale, and
   no step changes the locale or the dictionary or calls the loader. *)
ControllerComesToRest ==
    /\ <>[]Quiescent
    /\ <>[][UNCHANGED <<localeState, dictionary, loaderCalls>>]_vars
=============================================================================
